---- MODULE Spec2Model ----
(***************************************************************************)
(* TrekSafer request pipeline: message parsing, fire search and filters,   *)
(* avalanche provider selection and forecast, AQI, reply formatting and    *)
(* the request router (app/helpers.py, app/fires.py, app/filters.py,       *)
(* app/avalanche/*.py, app/messages.py).                                   *)
(*                                                                         *)
(* Conventions.  An Optional value is a sequence: <<>> is Python's None    *)
(* and <<x>> is the value x.  A coordinate pair is <<lat, lon>> in whole   *)
(* degrees.  A message is modelled by what the regular expressions of      *)
(* parse_message extract from it.                                          *)
(***************************************************************************)
EXTENDS Integers, Sequences, FiniteSets, TLC

VARIABLES
    pc,         \* position of the operation under way
    message,    \* the inbound message (parse_message's argument)
    parsed,     \* what parse_message returned: None or <<result>>
    fire,       \* the fire record handed to Messages.fire
    entry,      \* what Messages.fire returned: None or <<rendering>>
    settings,   \* the Settings record returned by get_config()
    shapefiles, \* shapefiles/<location>/: the newest perimeter file's rows
    coords,     \* the coordinate FindFires / AvalancheReport is built for
    user_filters, \* the filters nearby() is called with
    found,      \* what FindFires.nearby returned: None or <<records>>
    subregions_file, \* boundaries/canadian_subregions.shp.zip: None, <<rows>>
    provinces_file,  \* boundaries/canada_provinces.zip: None or <<rows>>
    provider,   \* what _select_provider returned: None or <<key>>
    dist,       \* a provider's distance_from_region: [key, value], or None
    cache,      \* the providers' HTTP cache on disk: url -> None or <<entry>>
    data_type,  \* handle_message's data_type, once the message is parsed
    probe,      \* what has_data() returned: None (not called) or <<bool>>
    fetch,      \* the provider.get_forecast calls of the request, in order
    aqi,        \* what get_aqi did in the request: None (not called), <<r>>
    reply,      \* what handle_message did: None (running) or <<result>>
    startup,    \* the Settings run() loaded when the process started
    now,        \* the clock: hours since midnight of day 0, local time
    first,      \* the first of two runs on one message: its cache, clock, reply
    conn,       \* the CLI connection being served: its state, what was written
    transports, \* _run_transports: its position, the listener tasks, the stops
    loader      \* the polygon files: what is on disk, what the process holds

parseVars == <<message, parsed>>

fmtVars == <<fire, entry>>

fireVars == <<shapefiles, coords, user_filters, found>>

boundaryVars == <<subregions_file, provinces_file>>

avalVars == <<provider, dist>>

routerVars == <<cache, data_type, probe, fetch, aqi, reply, startup, now,
               first, conn, transports, loader>>

None == <<>>

Some(x) == <<x>>

abs(x) == IF x < 0 THEN -x ELSE x

\* a min() that forgets its second argument
Min2_first(a, b) == a

Min2(a, b) == IF a <= b THEN a ELSE b

(***************************************************************************)
(* app/helpers.py : parse_message and its helpers                          *)
(***************************************************************************)

\* helpers.py _valid_coords
_valid_coords(lat, lon) == -90 <= lat /\ lat <= 90 /\ -180 <= lon /\ lon <= 180

\* hemi.upper()
upper(h) ==
    CASE h = "n" -> "N" [] h = "s" -> "S" [] h = "e" -> "E" [] h = "w" -> "W"
      [] OTHER -> h

\* helpers.py _apply_hemisphere: the hemisphere letter wins over the sign
_apply_hemisphere(value, hemi, for_lat) ==
    LET v == abs(value)
        H == upper(hemi)
    IN  IF for_lat
        THEN (IF H = "N" THEN v ELSE -v)
        ELSE (IF H = "W" THEN -v ELSE v)

\* helpers.py _coords_from_apple: the coordinate= query parameter, validated
_coords_from_apple(url) ==
    IF url.coordinate # None
       /\ _valid_coords(url.coordinate[1][1], url.coordinate[1][2])
    THEN url.coordinate
    ELSE None

\* helpers.py _coords_from_google: @lat,lon in the path, then q=, then query=
_coords_from_google(url) ==
    IF url.at # None /\ _valid_coords(url.at[1][1], url.at[1][2])
    THEN url.at
    ELSE IF url.q # None /\ _valid_coords(url.q[1][1], url.q[1][2])
    THEN url.q
    ELSE IF url.query # None /\ _valid_coords(url.query[1][1], url.query[1][2])
    THEN url.query
    ELSE None

\* the body of the loop over the https?:// tokens (helpers.py 150-158)
UrlCoords(url) ==
    IF url.site = "apple" THEN _coords_from_apple(url)
    ELSE IF url.site = "google" THEN _coords_from_google(url)
    ELSE None

RECURSIVE UrlScan(_)
\* the first URL of the message that yields coordinates, or None
UrlScan(urls) ==
    IF urls = <<>> THEN None
    ELSE IF UrlCoords(Head(urls)) # None THEN UrlCoords(Head(urls))
    ELSE UrlScan(Tail(urls))

RECURSIVE FirstInRange(_)
\* helpers.py 173-180: the first pair found anywhere that is in range
FirstInRange(pairs) ==
    IF pairs = <<>> THEN None
    ELSE IF _valid_coords(Head(pairs)[1], Head(pairs)[2]) THEN Some(Head(pairs))
    ELSE FirstInRange(Tail(pairs))

\* helpers.py 165-180: the trailing bracketed pair is taken as matched;
\* otherwise the pairs anywhere in the string are scanned
DecimalPair(msg) ==
    IF msg.trailing # None THEN msg.trailing ELSE FirstInRange(msg.pairs)

RECURSIVE HemiScan(_)
\* helpers.py 184-197: the degree+hemisphere patterns, in order
HemiScan(matches) ==
    IF matches = <<>> THEN None
    ELSE IF Head(matches) = None THEN HemiScan(Tail(matches))
    ELSE LET m == Head(matches)[1]
             lat == _apply_hemisphere(m.lat, m.lat_dir, TRUE)
             long == _apply_hemisphere(m.lon, m.lon_dir, FALSE)
         IN  IF -90 <= lat /\ lat <= 90 /\ -180 <= long /\ long <= 180
             THEN Some(<<lat, long>>)
             ELSE HemiScan(Tail(matches))

\* helpers.py 117-121: 'active' wins over 'all'
StatusFilter(msg) ==
    IF msg.active THEN [status |-> "active"]
    ELSE IF msg.all THEN [status |-> "all"]
    ELSE <<>>

MmPerKm == 1000000

MmPerMile == 1609344

\* helpers.py 124-129: <integer><km|mi>; the distance is kept in millimetres
\* so that the factor 1.609344 is exact
DistanceFilter(msg) ==
    IF msg.distance = None THEN <<>>
    ELSE [distance |-> IF msg.distance[1].unit = "km"
                       THEN msg.distance[1].value * MmPerKm
                       ELSE msg.distance[1].value * MmPerMile]

\* helpers.py 132-136
DataType(msg) ==
    IF msg.avalanche THEN "avalanche" ELSE IF msg.fire THEN "fire" ELSE "auto"

\* helpers.py 139-147: current, today, tomorrow, all in that priority
AvalancheFilters(msg) ==
    IF msg.current THEN [forecast |-> "current"]
    ELSE IF msg.today THEN [forecast |-> "today"]
    ELSE IF msg.tomorrow THEN [forecast |-> "tomorrow"]
    ELSE IF msg.all THEN [forecast |-> "all"]
    ELSE <<>>

\* helpers.py parse_message: None, or the parsed request
parse_message(msg) ==
    LET filters == StatusFilter(msg) @@ DistanceFilter(msg)
        result(c) == Some([coords |-> c, filters |-> filters,
                           data_type |-> DataType(msg),
                           avalanche_filters |-> AvalancheFilters(msg)])
        fromUrl == UrlScan(msg.urls)
        decimal == DecimalPair(msg)
        hemi == HemiScan(msg.hemi)
    IN  IF fromUrl # None THEN result(fromUrl[1])
        ELSE IF decimal # None THEN result(decimal[1])
        ELSE IF hemi # None THEN result(hemi[1])
        ELSE None

(***************************************************************************)
(* Messages offered to parse_message.  A message is what the parser's      *)
(* regular expressions see in it: the map URLs in order, the bracketed     *)
(* pair at the end of the string, the pairs found anywhere, the match of   *)
(* each degree+hemisphere pattern, and the keywords.                       *)
(***************************************************************************)

MaxPairs == 2

\* pairs the decimal patterns can match (lat: 1-2 digits, lon: 1-3 digits)
BracketPairs ==
    { <<0, 0>>, <<90, 0>>, <<-90, 0>>, <<0, 180>>, <<0, -180>>,
      <<91, 0>>, <<-91, 0>>, <<0, 181>>, <<0, -181>>, <<52, -115>> }

AnywherePairs == { <<99, 999>>, <<12, 99>>, <<91, 0>> }

NoUrl == [site |-> "other", coordinate |-> None, at |-> None, q |-> None,
          query |-> None]

Urls ==
    { NoUrl,
      [NoUrl EXCEPT !.site = "apple", !.coordinate = Some(<<49, -123>>)],
      [NoUrl EXCEPT !.site = "apple", !.coordinate = Some(<<149, -123>>)],
      [NoUrl EXCEPT !.site = "google", !.at = Some(<<95, 10>>),
                    !.query = Some(<<-12, 98>>)],
      [NoUrl EXCEPT !.site = "google", !.q = Some(<<12, 200>>)] }

HemiMatches ==
    { None,
      Some([lat |-> -50, lat_dir |-> "N", lon |-> 122, lon_dir |-> "w"]),
      Some([lat |-> 95, lat_dir |-> "s", lon |-> 18, lon_dir |-> "E"]) }

SeqsUpTo(S, n) == UNION { [1..k -> S] : k \in 0..n }

NoKeywords ==
    [active |-> FALSE, all |-> FALSE, distance |-> None, avalanche |-> FALSE,
     fire |-> FALSE, current |-> FALSE, today |-> FALSE, tomorrow |-> FALSE]

KeywordSets ==
    { NoKeywords,
      [NoKeywords EXCEPT !.active = TRUE, !.all = TRUE,
                         !.distance = Some([value |-> 25, unit |-> "km"])],
      [NoKeywords EXCEPT !.all = TRUE, !.avalanche = TRUE, !.fire = TRUE,
                         !.distance = Some([value |-> 10, unit |-> "mi"])] }

Message(urls, trailing, pairs, hemi, kw) ==
    [urls |-> urls, trailing |-> trailing, pairs |-> pairs, hemi |-> hemi]
    @@ kw

ParseMessages ==
    { Message(u, t, p, h, k) :
        u \in SeqsUpTo(Urls, 1),
        t \in {None} \cup { Some(c) : c \in BracketPairs },
        p \in SeqsUpTo(AnywherePairs, MaxPairs),
        h \in [1..2 -> HemiMatches],
        k \in KeywordSets }

(***************************************************************************)
(* app/messages.py : Messages.fire.  A text field is modelled by its       *)
(* length in UTF-16 code units after str(v).strip() (what _message_length  *)
(* counts); Distance is in metres, Size in tenths of a hectare.            *)
(***************************************************************************)

_SMS_LIMIT == 159

RECURSIVE Digits(_)
\* len(str(n)) of a non-negative integer
Digits(n) == IF n < 10 THEN 1 ELSE 1 + Digits(n \div 10)

\* Python's round() of the non-negative rational n/d: half to even
round(n, d) ==
    LET q == n \div d
        r == n % d
    IN  IF 2 * r < d THEN q
        ELSE IF 2 * r > d THEN q + 1
        ELSE IF q % 2 = 0 THEN q ELSE q + 1

\* _format_distance with one decimal kept from 10 km on as well
_format_distance_one_decimal(meters) == round(meters, 100)

\* _format_distance with the division by 10 left out below 10 km
_format_distance_unscaled(meters) ==
    IF meters < 10000 THEN 10 * round(meters, 100)
    ELSE 10 * round(meters, 1000)

\* messages.py _format_distance, in tenths of a km: below 10 km
\* round(km * 10) / 10, from 10 km on round(km)
_format_distance(meters) ==
    IF meters < 10000 THEN round(meters, 100) ELSE 10 * round(meters, 1000)

\* len(str(_format_distance(meters))): an integer result is printed without
\* '.0', any other as '<int>.<digit>'
DistanceLen(meters) ==
    LET t == _format_distance(meters)
    IN  IF t % 10 = 0 THEN Digits(t \div 10) ELSE Digits(t \div 10) + 2

\* fire['FullName'] (messages.py 68-73)
FullNameLen(f, size) ==
    IF f.Name # None /\ ~f.NameIsFire
    THEN (IF size = "full" THEN f.Name[1] + 2 + f.Fire + 1
          ELSE IF size = "medium" THEN f.Name[1] + 1 + f.Fire
          ELSE f.Fire)
    ELSE f.Fire

\* fire['DistDir'] = f"{distance}km {fire['Direction']}"
DistDirLen(f) == DistanceLen(f.Distance) + 3 + f.Direction

\* fire['Size'] = round(float(fire['Size'])), in whole hectares
SizeHa(f) == round(f.Size, 10)

\* one line of the message: template.format(value), the template adding
\* `extra` characters; a missing or falsy value gives no line
Line(present, extra, len) == IF present THEN <<extra + len>> ELSE <<>>

\* the lines of level_fields[size] that are rendered (messages.py 44-84)
Lines(f, size) ==
    LET full == Line(FullNameLen(f, size) > 0, 6, FullNameLen(f, size))
        loc == Line(f.Location # None /\ f.Location # <<0>>, 10,
                    IF f.Location = None THEN 0 ELSE f.Location[1])
        dd == Line(TRUE, 0, DistDirLen(f))
        sz == Line(SizeHa(f) # 0, 9, Digits(SizeHa(f)))
        st == Line(f.Status # None /\ f.Status # <<0>>, 8,
                   IF f.Status = None THEN 0 ELSE f.Status[1])
        code == Line(f.Fire > 0, 0, f.Fire)
        szs == Line(SizeHa(f) # 0, 2, Digits(SizeHa(f)))
    IN  IF size = "full" THEN full \o loc \o dd \o sz \o st
        ELSE IF size = "medium" THEN full \o dd \o sz
        ELSE code \o dd \o szs

RECURSIVE SumSeq(_)
SumSeq(s) == IF s = <<>> THEN 0 ELSE Head(s) + SumSeq(Tail(s))

\* _message_length("\n".join(message)): the lines and the newlines between
_message_length(lines) ==
    IF lines = <<>> THEN 0 ELSE SumSeq(lines) + Len(lines) - 1

\* a _fire that returns the rendering at `size` whatever its length
_fire_as_rendered(f, size) ==
    [size |-> size, length |-> _message_length(Lines(f, size))]

\* a _fire that goes from 'full' straight to 'short'
_fire_skip_medium(f, size) ==
    LET msg_length == _message_length(Lines(f, size))
        rewritten == [f EXCEPT !.Size = 10 * SizeHa(f)]
    IN  IF msg_length > _SMS_LIMIT /\ size # "short"
        THEN [size |-> "short",
              length |-> _message_length(Lines(rewritten, "short"))]
        ELSE [size |-> size, length |-> msg_length]

RECURSIVE _fire(_, _)
\* messages.py Messages._fire: render at `size`; when the rendering exceeds
\* _SMS_LIMIT and size is not 'short', render the (rewritten) record again
\* one level down
_fire(f, size) ==
    LET msg_length == _message_length(Lines(f, size))
        rewritten == [f EXCEPT !.Size = 10 * SizeHa(f)]
    IN  IF msg_length > _SMS_LIMIT /\ size # "short"
        THEN _fire(rewritten, IF size = "full" THEN "medium" ELSE "short")
        ELSE [size |-> size, length |-> msg_length]

RECURSIVE _fire_calls(_, _)
\* the number of times Messages._fire runs for one call at `size`
_fire_calls(f, size) ==
    LET msg_length == _message_length(Lines(f, size))
        rewritten == [f EXCEPT !.Size = 10 * SizeHa(f)]
    IN  IF msg_length > _SMS_LIMIT /\ size # "short"
        THEN 1 + _fire_calls(rewritten,
                             IF size = "full" THEN "medium" ELSE "short")
        ELSE 1

\* messages.py Messages.fire
Fire(f, size) == _fire(f, size)

(***************************************************************************)
(* Fire records offered to Messages.fire                                   *)
(***************************************************************************)

FireRecords ==
    { [Fire |-> fl, Name |-> nm, NameIsFire |-> same, Location |-> loc,
       Distance |-> d, Direction |-> dir, Size |-> sz, Status |-> st] :
        fl \in {0, 6, 170},
        nm \in {None, <<0>>, <<6>>, <<12>>, <<140>>, <<200>>},
        same \in BOOLEAN,
        loc \in {None, <<0>>, <<15>>, <<150>>, <<230>>},
        d \in {0, 1000, 9440, 9950, 12345, 150000},
        dir \in {1, 3},
        sz \in {0, 4, 1234, 729992},
        st \in {None, <<1>>, <<14>>} }

\* a record's Name can equal its Fire code only when the two are as long
WellFormedFire(f) == f.NameIsFire => (f.Name # None /\ f.Name[1] = f.Fire)

NoFire ==
    [Fire |-> 0, Name |-> None, NameIsFire |-> FALSE, Location |-> None,
     Distance |-> 0, Direction |-> 1, Size |-> 0, Status |-> None]

FmtIdle == fire = NoFire /\ entry = None

ParseIdle == message = Message(<<>>, None, <<>>, <<None, None>>, NoKeywords)
             /\ parsed = None

(***************************************************************************)
(* Geometry.  The world is one east-west line: a point is its abscissa in  *)
(* metres, a polygon is a closed interval [lo, hi] of it, and the planar   *)
(* projection takes one degree of longitude to 1000 m.                     *)
(***************************************************************************)

\* helpers.py coords_to_point_meters
coords_to_point_meters(c) == c[2] * 1000

\* shapely: geometry.distance(point), in metres
distance(g, x) ==
    IF x < g.lo THEN g.lo - x ELSE IF x > g.hi THEN x - g.hi ELSE 0

\* shapely: nearest_points(point, geometry)[1]
nearest_point(g, x) == IF x < g.lo THEN g.lo ELSE IF x > g.hi THEN g.hi ELSE x

\* shapely: geometry.contains(point), the boundary excluded
contains(g, x) == g.lo < x /\ x < g.hi

\* helpers.py compass_direction: the bearing of pointB seen from pointA,
\* snapped to the compass rose (a null bearing reads N)
compass_direction(pointA, pointB) ==
    IF pointB > pointA THEN "E" ELSE IF pointB < pointA THEN "W" ELSE "N"

(***************************************************************************)
(* app/filters.py and app/fires.py.  Python values of different types      *)
(* never compare equal: a raw status code is [str |-> s], a status level   *)
(* [int |-> n] and float('inf') is [float |-> "inf"].                      *)
(***************************************************************************)

PyStr(s) == [str |-> s]

PyInt(n) == [int |-> n]

PyInf == [float |-> "inf"]

\* filters.py STATUS_LEVELS, in the dict's order
StatusNames == <<"active", "managed", "controlled", "out">>

STATUS_LEVELS == [active |-> 1, managed |-> 2, controlled |-> 3, out |-> 4]

RECURSIVE FirstCategory(_, _, _)
\* the first category of status_map, in its order, whose codes hold value
FirstCategory(value, status_map, i) ==
    IF i > Len(StatusNames) THEN None
    ELSE IF value \in status_map[StatusNames[i]] THEN Some(StatusNames[i])
    ELSE FirstCategory(value, status_map, i + 1)

\* fires.py status_to_level
status_to_level(value, status_map) ==
    LET c == FirstCategory(value, status_map, 1)
    IN  IF c # None THEN PyInt(STATUS_LEVELS[c[1]]) ELSE PyInf

\* a get_allowed_statuses that takes the codes of filter_level alone
get_allowed_statuses_one_level(status_map, filter_level) ==
    IF filter_level \notin DOMAIN STATUS_LEVELS THEN {}
    ELSE status_map[filter_level]

\* filters.py get_allowed_statuses: the raw codes of the categories up to
\* filter_level; no code at all for an unknown level
get_allowed_statuses(status_map, filter_level) ==
    IF filter_level \notin DOMAIN STATUS_LEVELS THEN {}
    ELSE UNION { status_map[StatusNames[i]] :
                    i \in { j \in 1..Len(StatusNames) :
                              STATUS_LEVELS[StatusNames[j]]
                                  <= STATUS_LEVELS[filter_level] } }

\* filters.py apply_status_filter
ItemStatusAllowed(item, allowed) == item.Status \in allowed

apply_status_filter(items, status_filter, data_file) ==
    IF status_filter = "all" THEN items
    ELSE LET allowed == get_allowed_statuses(data_file.status_map, status_filter)
         IN  SelectSeq(items, LAMBDA item : ItemStatusAllowed(item, allowed))

\* an apply_distance_filter whose comparison is turned around
apply_distance_filter_reversed(items, distance_mm, st) ==
    LET distance_limit == Min2(distance_mm, st.max_radius * MmPerKm)
    IN  SelectSeq(items, LAMBDA item : item.Distance * 1000 >= distance_limit)

\* filters.py apply_distance_filter: distance_km is held in millimetres,
\* item Distance in metres
apply_distance_filter(items, distance_mm, st) ==
    LET distance_limit == Min2(distance_mm, st.max_radius * MmPerKm)
    IN  SelectSeq(items, LAMBDA item : item.Distance * 1000 <= distance_limit)

\* filters.py apply_size_filter: Size is held in tenths of a hectare
apply_size_filter(items, min_size_ha) ==
    SelectSeq(items, LAMBDA item :
                        item.Size # None /\ item.Size[1] >= 10 * min_size_ha)

\* filters.py apply_filters, over the keys of final_filters in their order:
\* status, distance, size
apply_filters(items, filters, data_file, st) ==
    apply_size_filter(
        apply_distance_filter(
            apply_status_filter(items, filters.status, data_file),
            filters.distance, st),
        filters.size)

\* fires.py _normalize_row with _process_fields: the mapped fields, Status
\* stored as its level
_normalize_row(data_file, row, location) ==
    [Distance |-> distance(row.geometry, location),
     Direction |-> compass_direction(location,
                                     nearest_point(row.geometry, location)),
     Fire |-> row.Fire,
     Size |-> row.Size,
     Status |-> status_to_level(PyStr(row.Status), data_file.status_map)]

\* fires.py FindFires.search
search(perimeters, filters, data_file, location, st) ==
    LET search_limit == Min2(filters.distance, st.max_radius * MmPerKm)
        near == SelectSeq(perimeters, LAMBDA row :
                    ~(distance(row.geometry, location) * 1000 > search_limit))
        fires == [i \in 1..Len(near) |->
                    _normalize_row(data_file, near[i], location)]
    IN  apply_filters(fires, filters, data_file, st)

\* boundaries/countries.zip and boundaries/canada_provinces.zip
countries == << [code |-> "US", geometry |-> [lo |-> -9000, hi |-> -6000]] >>

Provinces ==
    << [code |-> "BC", geometry |-> [lo |-> 0, hi |-> 4000]],
       [code |-> "AB", geometry |-> [lo |-> 5000, hi |-> 9000]] >>

Quebec == [code |-> "QC", geometry |-> [lo |-> 20000, hi |-> 24000]]

\* fires.py FindFires._data_sources: the codes of the countries, then of the
\* provinces, within max_radius of the point
_data_sources(location, canada_provinces, st) ==
    LET near(layer) ==
            SelectSeq(layer, LAMBDA row :
                distance(row.geometry, location) <= st.max_radius * 1000)
        codes(rows) == [i \in 1..Len(rows) |-> rows[i].code]
    IN  codes(near(countries)) \o codes(near(canada_provinces))

\* fires.py FindFires.out_of_range
FindFires_out_of_range(c, canada_provinces, st) ==
    _data_sources(coords_to_point_meters(c), canada_provinces, st) = <<>>

\* settings.data: the data file of each configured location
status_map_BC ==
    [active |-> {PyStr("OUT_CNTRL")}, managed |-> {PyStr("HOLDING")},
     controlled |-> {PyStr("UNDR_CNTRL")}, out |-> {PyStr("OUT")}]

DataFiles ==
    << [location |-> "BC", status_map |-> status_map_BC],
       [location |-> "AB", status_map |-> status_map_BC] >>

\* next((df for df in settings.data if df.location == source), None)
DataFileOf(source) ==
    LET hits == SelectSeq(DataFiles, LAMBDA df : df.location = source)
    IN  IF hits = <<>> THEN None ELSE Some(Head(hits))

RECURSIVE SearchSources(_, _, _, _, _)
\* the loop of nearby() over self.sources
SearchSources(sources, files, final_filters, location, st) ==
    IF sources = <<>> THEN <<>>
    ELSE LET source == Head(sources)
             rest == SearchSources(Tail(sources), files, final_filters,
                                   location, st)
         IN  IF source \notin DOMAIN files \/ files[source] = None
                \/ DataFileOf(source) = None
             THEN rest
             ELSE search(files[source][1], final_filters,
                         DataFileOf(source)[1], location, st) \o rest

\* fires.py FindFires.nearby: user filters override the defaults
final_filters_of(filters, st) ==
    filters @@ [status |-> st.fire_status,
                distance |-> st.fire_radius * MmPerKm,
                size |-> st.fire_size]

nearby(c, filters, files, canada_provinces, st) ==
    LET location == coords_to_point_meters(c)
    IN  SearchSources(_data_sources(location, canada_provinces, st), files,
                      final_filters_of(filters, st), location, st)

(***************************************************************************)
(* Settings and perimeter files offered to the fire search                 *)
(***************************************************************************)

MaxRows == 2

PerimeterRows ==
    { [Fire |-> 1, geometry |-> [lo |-> 1000, hi |-> 2000], Size |-> <<50>>,
       Status |-> "OUT_CNTRL"],
      [Fire |-> 2, geometry |-> [lo |-> 1000, hi |-> 1000], Size |-> <<50>>,
       Status |-> "HOLDING"],
      [Fire |-> 3, geometry |-> [lo |-> 3000, hi |-> 3500], Size |-> <<20>>,
       Status |-> "UNDR_CNTRL"],
      [Fire |-> 4, geometry |-> [lo |-> 0, hi |-> 500], Size |-> <<10>>,
       Status |-> "OUT"],
      [Fire |-> 5, geometry |-> [lo |-> 2000, hi |-> 2500], Size |-> <<50>>,
       Status |-> "UNKNOWN"],
      [Fire |-> 6, geometry |-> [lo |-> 0, hi |-> 4000], Size |-> <<4>>,
       Status |-> "OUT_CNTRL"],
      [Fire |-> 7, geometry |-> [lo |-> 4000, hi |-> 4000], Size |-> None,
       Status |-> "OUT_CNTRL"] }

FileAB ==
    << [Fire |-> 8, geometry |-> [lo |-> 5000, hi |-> 6000], Size |-> <<300>>,
        Status |-> "OUT_CNTRL"] >>

\* config.py AvalancheProviderConfig.forecast_cutoff_hour
forecast_cutoff_hour == 16

BaseSettings ==
    [fire_radius |-> 2, max_radius |-> 3, fire_status |-> "controlled",
     fire_size |-> 1, include_aqi |-> TRUE, avalanche_distance_buffer |-> 2,
     avalanche |-> Some(<<"CA", "QC">>),
     forecast_cutoff_hour |-> forecast_cutoff_hour]

FireSettings ==
    { [BaseSettings EXCEPT !.fire_radius = r[1], !.max_radius = r[2],
                           !.fire_status = s] :
        r \in {<<2, 3>>, <<3, 2>>, <<1, 5>>},
        s \in {"active", "managed", "controlled", "out", "all"} }

UserFilters ==
    { f1 @@ f2 :
        f1 \in { <<>>, [status |-> "active"], [status |-> "all"] },
        f2 \in { <<>>, [distance |-> 1 * MmPerKm], [distance |-> 4 * MmPerKm],
                 [distance |-> 1 * MmPerMile] } }

FireIdle ==
    /\ shapefiles = [BC |-> None, AB |-> None]
    /\ coords = <<0, 0>>
    /\ user_filters = <<>>
    /\ found = None

(***************************************************************************)
(* app/avalanche : the providers and AvalancheReport._select_provider.     *)
(* A distance is None (the point is inside), [fin |-> d] with d in metres  *)
(* (the code's value in km times 1000) or float('inf').                    *)
(***************************************************************************)

Fin(d) == [fin |-> d]

\* Python's a <= b and a < b on floats that may be inf
PyLe(a, b) == IF b = PyInf THEN TRUE ELSE IF a = PyInf THEN FALSE
              ELSE a.fin <= b.fin

PyLt(a, b) == IF a = PyInf THEN FALSE ELSE IF b = PyInf THEN TRUE
              ELSE a.fin < b.fin

\* avalanche/__init__.py AVALANCHE_PROVIDERS
AVALANCHE_PROVIDERS == {"CA", "QC"}

\* the files a provider is constructed from
Boundaries(sub, prov) == [subregions |-> sub, provinces |-> prov]

\* canada.py _load_subregions: the rows, or None when the file is not found
_load_subregions(w) == w.subregions

\* quebec.py _load_quebec: the first row whose postal is QC; None when the
\* file is not found or holds no such row
_load_quebec(w) ==
    IF w.provinces = None THEN None
    ELSE LET quebec == SelectSeq(w.provinces[1], LAMBDA r : r.code = "QC")
         IN  IF quebec = <<>> THEN None ELSE Some(Head(quebec))

\* gdf['distance'].min() over the rows of a non-empty layer
MinDistance(rows, x) ==
    CHOOSE d \in { distance(rows[i].geometry, x) : i \in 1..Len(rows) } :
        \A i \in 1..Len(rows) : d <= distance(rows[i].geometry, x)

\* canada.py AvalancheCanadaProvider.distance_from_region
Canada_distance_from_region_nobuffer(c, w, st) ==
    LET gdf == _load_subregions(w)
        x == coords_to_point_meters(c)
    IN  IF gdf = None THEN PyInf
        ELSE IF \E i \in 1..Len(gdf[1]) : contains(gdf[1][i].geometry, x)
        THEN None
        ELSE Fin(MinDistance(gdf[1], x))

Canada_distance_from_region(c, w, st) ==
    LET gdf == _load_subregions(w)
        x == coords_to_point_meters(c)
    IN  IF gdf = None THEN PyInf
        ELSE IF \E i \in 1..Len(gdf[1]) : contains(gdf[1][i].geometry, x)
        THEN None
        ELSE LET nearest_distance_m == MinDistance(gdf[1], x)
             IN  IF nearest_distance_m > st.avalanche_distance_buffer * 1000
                 THEN PyInf
                 ELSE Fin(nearest_distance_m)

\* canada.py _find_closest_subregion: the name of the nearest subregion
\* within limit_km, the first of the layer among equally near ones
_find_closest_subregion(c, limit_km, w) ==
    LET gdf == _load_subregions(w)
        x == coords_to_point_meters(c)
    IN  IF gdf = None THEN None
        ELSE LET nearby_rows ==
                     SelectSeq(gdf[1], LAMBDA r :
                         distance(r.geometry, x) <= limit_km * 1000)
             IN  IF nearby_rows = <<>> THEN None
                 ELSE LET m == MinDistance(nearby_rows, x)
                          nearest == SelectSeq(nearby_rows, LAMBDA r :
                                         distance(r.geometry, x) = m)
                      IN  Some(Head(nearest).polygon_na)

\* canada.py _get_subregion
_get_subregion(c, w, st) ==
    LET gdf == _load_subregions(w)
        x == coords_to_point_meters(c)
    IN  IF gdf = None THEN None
        ELSE LET matches == SelectSeq(gdf[1], LAMBDA r :
                                contains(r.geometry, x))
             IN  IF matches # <<>> THEN Some(Head(matches).polygon_na)
                 ELSE _find_closest_subregion(
                          c, st.avalanche_distance_buffer, w)

\* canada.py AvalancheCanadaProvider.out_of_range
Canada_out_of_range(c, w, st) == _get_subregion(c, w, st) = None

\* quebec.py _is_in_quebec
_is_in_quebec(c, w) ==
    /\ _load_quebec(w) # None
    /\ contains(_load_quebec(w)[1].geometry, coords_to_point_meters(c))

\* quebec.py AvalancheQuebecProvider.distance_from_region
Quebec_distance_from_region(c, w, st) ==
    IF _load_quebec(w) = None THEN PyInf
    ELSE IF _is_in_quebec(c, w) THEN None
    ELSE LET distance_m == distance(_load_quebec(w)[1].geometry,
                                    coords_to_point_meters(c))
         IN  IF distance_m > st.avalanche_distance_buffer * 1000
             THEN PyInf
             ELSE Fin(distance_m)

\* quebec.py AvalancheQuebecProvider.out_of_range
Quebec_out_of_range(c, w) == ~_is_in_quebec(c, w)

\* provider.distance_from_region(coords) of the provider registered as key
distance_from_region(key, c, w, st) ==
    IF key = "CA" THEN Canada_distance_from_region(c, w, st)
    ELSE Quebec_distance_from_region(c, w, st)

\* provider.out_of_range(coords)
provider_out_of_range(key, c, w, st) ==
    IF key = "CA" THEN Canada_out_of_range(c, w, st)
    ELSE Quebec_out_of_range(c, w)

RECURSIVE SelectLoop_later_tie(_, _, _, _, _, _)
\* the loop with <= for <: of two providers equally near, the later wins
SelectLoop_later_tie(keys, best_provider, best_distance, c, w, st) ==
    IF keys = <<>> THEN best_provider
    ELSE IF Head(keys) \notin AVALANCHE_PROVIDERS
    THEN SelectLoop_later_tie(Tail(keys), best_provider, best_distance,
                              c, w, st)
    ELSE LET d == IF Head(keys) = "CA"
                  THEN Canada_distance_from_region(c, w, st)
                  ELSE Quebec_distance_from_region(c, w, st)
         IN  IF d = None THEN Some(Head(keys))
             ELSE IF PyLe(d, Fin(st.avalanche_distance_buffer * 1000))
                     /\ PyLe(d, best_distance)
             THEN SelectLoop_later_tie(Tail(keys), Some(Head(keys)), d,
                                       c, w, st)
             ELSE SelectLoop_later_tie(Tail(keys), best_provider,
                                       best_distance, c, w, st)

RECURSIVE SelectLoop(_, _, _, _, _, _)
\* the loop of _select_provider over settings.avalanche.providers
SelectLoop(keys, best_provider, best_distance, c, w, st) ==
    IF keys = <<>> THEN best_provider
    ELSE IF Head(keys) \notin AVALANCHE_PROVIDERS
    THEN SelectLoop(Tail(keys), best_provider, best_distance, c, w, st)
    ELSE LET d == distance_from_region(Head(keys), c, w, st)
         IN  IF d = None THEN Some(Head(keys))
             ELSE IF PyLe(d, Fin(st.avalanche_distance_buffer * 1000))
                     /\ PyLt(d, best_distance)
             THEN SelectLoop(Tail(keys), Some(Head(keys)), d, c, w, st)
             ELSE SelectLoop(Tail(keys), best_provider, best_distance,
                             c, w, st)

\* report.py AvalancheReport._select_provider
_select_provider(c, w, st) ==
    IF st.avalanche = None THEN None
    ELSE SelectLoop(st.avalanche[1], None, PyInf, c, w, st)

\* report.py AvalancheReport.out_of_range
AvalancheReport_out_of_range(c, w, st) ==
    LET p == _select_provider(c, w, st)
    IN  IF p = None THEN TRUE ELSE provider_out_of_range(p[1], c, w, st)

(***************************************************************************)
(* Boundary files and settings offered to the avalanche dispatcher         *)
(***************************************************************************)

MaxLon == 26

SeaToSky == [polygon_na |-> "Sea to Sky",
             geometry |-> [lo |-> 1000, hi |-> 3000]]

Gaspe == [polygon_na |-> "Gaspe", geometry |-> [lo |-> 16000, hi |-> 18000]]

Border == [polygon_na |-> "Border", geometry |-> [lo |-> 19000, hi |-> 21000]]

SubregionFiles ==
    { None, Some(<<SeaToSky>>), Some(<<SeaToSky, Gaspe>>),
      Some(<<Border, SeaToSky>>), Some(<<Gaspe, Border>>) }

ProvinceFiles == { None, Some(Provinces), Some(Provinces \o <<Quebec>>) }

ProviderConfigs ==
    { None, Some(<<>>), Some(<<"CA">>), Some(<<"QC">>), Some(<<"CA", "QC">>),
      Some(<<"QC", "CA">>), Some(<<"XX", "QC", "CA">>) }

AvalIdle == provider = None /\ dist = None

BoundariesPresent ==
    /\ subregions_file = Some(<<SeaToSky>>)
    /\ provinces_file = Some(Provinces \o <<Quebec>>)

(***************************************************************************)
(* The avalanche API behind the provider's CachedSession, the providers'   *)
(* get_forecast, AvalancheReport.has_data / get_forecast, get_aqi and the  *)
(* handlers of app/messages.py.  The result of a call is                   *)
(* [raised |-> FALSE, value |-> v] or [raised |-> TRUE, value |-> exc].    *)
(***************************************************************************)

Return(v) == [raised |-> FALSE, value |-> v]

Raise(exc) == [raised |-> TRUE, value |-> exc]

\* what the network does with a GET: a response, or a RequestException
\* (timeout, connection error)
Response(status, body) ==
    [exception |-> FALSE, status_code |-> status, body |-> body]

RequestException == [exception |-> TRUE, status_code |-> 0, body |-> "none"]

\* the bodies of the API: a full report; a body without 'report' (Canada)
\* or without 'dangerRatings' (Quebec); a report whose id is null (Canada)
NetworkOutcomes(key) ==
    { Response(200, "report"), Response(200, "no_report"),
      Response(500, "error"), RequestException }
    \cup (IF key = "CA" THEN { Response(200, "null_id") } ELSE {})

\* the URL get_forecast requests: Canada's holds the coordinate
Url(key, c) == IF key = "CA" THEN <<"CA", c[1], c[2]>> ELSE <<"QC", 0, 0>>

\* a session that goes to the network whatever the cache holds
CachedGet_always_network(cached, net) ==
    IF ~net.exception /\ net.status_code = 200
    THEN [response |-> net,
          entry |-> Some([body |-> net.body, fresh |-> TRUE]),
          network |-> TRUE]
    ELSE IF cached # None
    THEN [response |-> Response(200, cached[1].body), entry |-> cached,
          network |-> TRUE]
    ELSE [response |-> net, entry |-> cached, network |-> TRUE]

\* base.py: session.get on CachedSession(expire_after=cache_timeout,
\* stale_if_error=True): a fresh entry answers without the network; a 200
\* is stored; a failed refresh of a stale entry answers with the stale body
CachedGet(cached, net) ==
    IF cached # None /\ cached[1].fresh
    THEN [response |-> Response(200, cached[1].body), entry |-> cached,
          network |-> FALSE]
    ELSE IF ~net.exception /\ net.status_code = 200
    THEN [response |-> net,
          entry |-> Some([body |-> net.body, fresh |-> TRUE]),
          network |-> TRUE]
    ELSE IF cached # None
    THEN [response |-> Response(200, cached[1].body), entry |-> cached,
          network |-> TRUE]
    ELSE [response |-> net, entry |-> cached, network |-> TRUE]

\* app/__init__.py _install_caches: requests.get patched by
\* install_cache(expire_after=request_cache_timeout), which sets no
\* stale_if_error: a fresh entry answers without the network, a 200 is
\* stored, and a failed refresh is what the caller gets
InstalledGet(cached, net) ==
    IF cached # None /\ cached[1].fresh
    THEN [response |-> Response(200, cached[1].body), entry |-> cached,
          network |-> FALSE]
    ELSE IF ~net.exception /\ net.status_code = 200
    THEN [response |-> net,
          entry |-> Some([body |-> net.body, fresh |-> TRUE]),
          network |-> TRUE]
    ELSE [response |-> net, entry |-> cached, network |-> TRUE]

\* canada.py _parse_forecast: no forecast without a report or a report id;
\* the region is the subregion of the point, else the title of the report
Canada_parse_forecast(body, c, w, st) ==
    IF body = "no_report" \/ body = "null_id" THEN None
    ELSE Some([region |-> IF _get_subregion(c, w, st) # None
                          THEN _get_subregion(c, w, st)[1]
                          ELSE "title"])

\* quebec.py _parse_forecast
Quebec_parse_forecast(body) ==
    IF body = "no_report" THEN None ELSE Some([region |-> "Chic-Chocs"])

\* a get_forecast that lets the RequestException of _request escape
provider_get_forecast_reraise(key, response, c, w, st) ==
    IF response.exception THEN Raise("RequestException")
    ELSE IF response.status_code = 200
    THEN Return(IF key = "CA"
                THEN Canada_parse_forecast(response.body, c, w, st)
                ELSE Quebec_parse_forecast(response.body))
    ELSE Return(None)

\* canada.py / quebec.py get_forecast, given what _request did: the
\* RequestException is caught, a status other than 200 gives None
provider_get_forecast(key, response, c, w, st) ==
    IF response.exception THEN Return(None)
    ELSE IF response.status_code = 200
    THEN Return(IF key = "CA"
                THEN Canada_parse_forecast(response.body, c, w, st)
                ELSE Quebec_parse_forecast(response.body))
    ELSE Return(None)

\* report.py AvalancheReport.has_data, given the provider's get_forecast
has_data(forecast) ==
    IF forecast.raised THEN FALSE ELSE forecast.value # None

\* the replies: what was said, and the length of the text
Reply(kind, length) ==
    [raised |-> FALSE, kind |-> kind, length |-> length, aqi |-> None,
     radius |-> 0, entries |-> <<>>, region |-> "", dates |-> <<>>]

Raised(exc) == [Reply("raise", 0) EXCEPT !.raised = TRUE, !.region = exc]

\* messages.py Messages.no_gps
no_gps ==
    Reply("no_gps", Len("TrekSafer ERROR: No GPS location found. Ensure device is setup to include location in sent message or manually include coordinates with \"(lat, long)\"."))

\* messages.py Messages.outside_of_area
outside_of_area ==
    Reply("outside_of_area", Len("TrekSafer ERROR: GPS coordinates outside of supported fire perimeter area. No data available."))

\* messages.py Messages.no_fires: the radius quoted is settings.fire_radius
no_fires(st) ==
    [Reply("no_fires",
           Len("No fires reported within a ") + Digits(st.fire_radius)
               + Len("km radius of your location."))
        EXCEPT !.radius = st.fire_radius]

\* report.py AvalancheReport.outside_of_area_msg
outside_of_area_msg ==
    Reply("avalanche_outside_of_area", Len("TrekSafer ERROR: GPS coordinates outside of supported avalanche forecast area. No data available."))

\* the hours of a day; a date is a day number, the clock counts hours
HoursPerDay == 24

\* current_time.date() and current_time.hour
date(t) == t \div HoursPerDay

hour(t) == t % HoursPerDay

\* the dates the report of the API holds a forecast for, sorted
ForecastDates == <<0, 1, 2>>

\* report.py _format_forecast: the header line, the date line (one date) or
\* the issue line (several), and the dates shown
format_forecast(doc, dates) ==
    [Reply("forecast",
           Len("Avalanche Forecast: ") + Len(doc.region) + 1
               + (IF Len(dates) = 1 THEN Len("Date: YYYY-MM-DD")
                  ELSE Len("Issued: YYYY-MM-DD")))
        EXCEPT !.region = doc.region, !.dates = dates]

\* an _apply_filter whose cutoff comparison is strict
dates_of_filter_after_cutoff(forecast_filter, t, cutoff) ==
    IF forecast_filter = "current"
    THEN (IF hour(t) > cutoff THEN <<date(t) + 1>> ELSE <<date(t)>>)
    ELSE IF forecast_filter = "tomorrow" THEN <<date(t) + 1>>
    ELSE IF forecast_filter = "all" THEN ForecastDates
    ELSE <<date(t)>>

\* report.py _apply_filter: the list of dates to show (lines 121-142)
dates_of_filter(forecast_filter, t, cutoff) ==
    IF forecast_filter = "current"
    THEN (IF hour(t) >= cutoff THEN <<date(t) + 1>> ELSE <<date(t)>>)
    ELSE IF forecast_filter = "today" THEN <<date(t)>>
    ELSE IF forecast_filter = "tomorrow" THEN <<date(t) + 1>>
    ELSE IF forecast_filter = "all" THEN ForecastDates
    ELSE <<date(t)>>

\* report.py AvalancheReport._apply_filter
_apply_filter(doc, forecast_filter, t, cutoff) ==
    format_forecast(doc, dates_of_filter(forecast_filter, t, cutoff))

\* report.py AvalancheReport.get_forecast, given the provider, what its
\* get_forecast returned, the filters of the message and the clock
AvalancheReport_get_forecast(p, forecast, avalanche_filters, t, st) ==
    IF p = None
    THEN Reply("avalanche_not_available",
               Len("Avalanche forecasts not available for this location."))
    ELSE IF forecast.raised THEN Raised(forecast.value)
    ELSE IF forecast.value = None
    THEN Reply("avalanche_unavailable",
               Len("No avalanche forecast available for this location."))
    ELSE _apply_filter(forecast.value[1],
                       IF "forecast" \in DOMAIN avalanche_filters
                       THEN avalanche_filters.forecast ELSE "current",
                       t, st.forecast_cutoff_hour)

\* helpers.py get_aqi: requests.get and the lookup of the current hour are
\* not guarded
AqiOutcomes == {"ok", "network_error", "hour_missing"}

get_aqi(outcome) ==
    IF outcome = "network_error" THEN Raise("RequestException")
    ELSE IF outcome = "hour_missing" THEN Raise("ValueError")
    ELSE Return("42")

\* the record Messages.fire renders, from a record of the search
FireOf(item) ==
    [Fire |-> Digits(item.Fire), Name |-> None, NameIsFire |-> FALSE,
     Location |-> None, Distance |-> item.Distance,
     Direction |-> Len(item.Direction), Size |-> item.Size[1],
     Status |-> IF item.Status = PyInf THEN <<3>>
                ELSE <<Digits(item.Status.int)>>]

\* messages.py handle_fire_request, given what get_aqi did
handle_fire_request(c, filters, aqi_result, files, canada_provinces, st) ==
    IF st.include_aqi /\ aqi_result.raised THEN Raised(aqi_result.value)
    ELSE
    LET aqi_message == IF st.include_aqi THEN Some(aqi_result.value) ELSE None
        aqi_len == IF st.include_aqi
                   THEN Len("AQI: ") + Len(aqi_result.value) + 2 ELSE 0
        with_aqi(r) == [r EXCEPT !.aqi = aqi_message,
                                 !.length = aqi_len + r.length]
        fires == nearby(c, filters, files, canada_provinces, st)
        fire_messages == [i \in 1..Len(fires) |-> Fire(FireOf(fires[i]), "full")]
        joined == SumSeq([i \in 1..Len(fires) |-> fire_messages[i].length])
                      + 2 * (Len(fires) - 1)
    IN  IF FindFires_out_of_range(c, canada_provinces, st)
        THEN with_aqi(outside_of_area)
        ELSE IF fires = <<>> THEN with_aqi(no_fires(st))
        ELSE with_aqi([Reply("fires", joined) EXCEPT !.entries = fire_messages])

\* fires.py FindFires.__init__: _data_sources reads the boundary files with
\* gpd.read_file, under no handler; a missing file raises out of it
FindFires_init(provinces) ==
    IF provinces = None THEN Raise("DataSourceError")
    ELSE Return(provinces[1])

\* messages.py handle_fire_request over the boundary file on disk
fire_request(c, filters, aqi_result, files, provinces, st) ==
    IF st.include_aqi /\ aqi_result.raised THEN Raised(aqi_result.value)
    ELSE IF FindFires_init(provinces).raised
    THEN Raised(FindFires_init(provinces).value)
    ELSE handle_fire_request(c, filters, aqi_result, files,
                             FindFires_init(provinces).value, st)

(***************************************************************************)
(* Messages, boundary files and perimeter files offered to the router      *)
(***************************************************************************)

RouterKeywords ==
    { NoKeywords,
      [NoKeywords EXCEPT !.avalanche = TRUE],
      [NoKeywords EXCEPT !.fire = TRUE],
      [NoKeywords EXCEPT !.fire = TRUE,
                         !.distance = Some([value |-> 1, unit |-> "km"])],
      [NoKeywords EXCEPT !.fire = TRUE, !.all = TRUE],
      [NoKeywords EXCEPT !.all = TRUE] }

RouterCoords == { <<50, 2>>, <<50, 12>>, <<50, 19>>, <<50, 22>> }

\* the BC perimeter file: a fire 1 km east of (50, 2) and one that touches it
RouterFile ==
    << [Fire |-> 3, geometry |-> [lo |-> 3000, hi |-> 3500], Size |-> <<20>>,
        Status |-> "UNDR_CNTRL"],
       [Fire |-> 1, geometry |-> [lo |-> 1000, hi |-> 2000], Size |-> <<50>>,
        Status |-> "OUT_CNTRL"] >>

RouterMessages ==
    { Message(<<>>, Some(c), <<>>, <<None, None>>, k) :
        c \in RouterCoords, k \in RouterKeywords }
    \cup { Message(<<>>, None, <<>>, <<None, None>>,
                   [NoKeywords EXCEPT !.active = TRUE]) }

RouterUrls == { Url(key, c) : key \in AVALANCHE_PROVIDERS, c \in RouterCoords }

\* _run_transports has not been called
NoTransports == [pc |-> "none"]

\* boundaries/ files read with gpd.read_file (fires.py _data_sources,
\* canada.py _load_subregions)
BoundaryFiles ==
    {"countries.zip", "canada_provinces.zip", "canadian_subregions.shp.zip"}

\* latest day on which the download job writes a perimeter file
MaxDay == 1

\* no polygon file has been read: reads counts gpd.read_file per boundary
\* file, loads counts it per perimeter path (one path per day), held is the
\* lru_cache of _load_shapefile, day the date of the newest perimeter file
NoLoader ==
    [reads |-> [f \in BoundaryFiles |-> 0],
     loads |-> [d \in 0..MaxDay |-> 0],
     held |-> [d \in 0..MaxDay |-> None],
     day |-> 0,
     requests |-> 0]

\* no connection is being served
NoConn == [id |-> 0, state |-> "none", out |-> <<>>]

RouterIdle ==
    /\ cache = [u \in RouterUrls |-> None]
    /\ data_type = "auto"
    /\ probe = None
    /\ fetch = <<>>
    /\ aqi = None
    /\ reply = None
    /\ startup = settings
    /\ now = 0
    /\ first = None
    /\ conn = NoConn
    /\ transports = NoTransports
    /\ loader = NoLoader

(***************************************************************************)
(* Specification of the parser: a message arrives and is parsed.           *)
(***************************************************************************)

InitParse ==
    /\ pc = "recv"
    /\ message \in ParseMessages
    /\ parsed = None
    /\ settings = BaseSettings
    /\ FmtIdle
    /\ FireIdle
    /\ BoundariesPresent
    /\ AvalIdle
    /\ RouterIdle

ParseMessage ==
    /\ pc = "recv"
    /\ parsed' = parse_message(message)
    /\ pc' = "parsed"
    /\ UNCHANGED <<message, settings, fmtVars, fireVars, boundaryVars,
                   avalVars, routerVars>>

NextParse == ParseMessage

vars == <<pc, message, parsed, fire, entry, settings, shapefiles, coords,
         user_filters, found, subregions_file, provinces_file, provider,
         dist, cache, data_type, probe, fetch, aqi, reply, startup, now,
         first, conn, transports, loader>>

SpecParse == InitParse /\ [][NextParse]_vars

\* C3: parse_message never returns a pair with latitude outside [-90, 90]
\* or longitude outside [-180, 180].
C3_ParsedInRange ==
    (pc = "parsed" /\ parsed # None)
        => _valid_coords(parsed[1].coords[1], parsed[1].coords[2])


(***************************************************************************)
(* Specification of the formatter: a fire record is rendered by            *)
(* Messages.fire(fire) at the default size 'full'.                         *)
(***************************************************************************)

InitFormat ==
    /\ pc = "record"
    /\ fire \in { f \in FireRecords : WellFormedFire(f) }
    /\ entry = None
    /\ settings = BaseSettings
    /\ ParseIdle
    /\ FireIdle
    /\ BoundariesPresent
    /\ AvalIdle
    /\ RouterIdle

FormatFire ==
    /\ pc = "record"
    /\ entry' = Some(Fire(fire, "full"))
    /\ pc' = "rendered"
    /\ UNCHANGED <<fire, settings, parseVars, fireVars, boundaryVars,
                   avalVars, routerVars>>

NextFormat == FormatFire

SpecFormat == InitFormat /\ [][NextFormat]_vars

\* C4 as stated: every entry returned by Messages.fire(fire) is at most 159
\* UTF-16 code units long.
C4_EntryWithinLimit ==
    (pc = "rendered") => entry[1].length <= _SMS_LIMIT

\* C4 as amended: the entry is at most 159 units long unless the record's
\* 'short' rendering itself exceeds 159 units; then that 'short' rendering
\* is what is returned.
C4_WithinLimitOrShort ==
    (pc = "rendered") =>
        LET short == _message_length(Lines(fire, "short"))
        IN  IF short <= _SMS_LIMIT
            THEN entry[1].length <= _SMS_LIMIT
            ELSE entry[1] = [size |-> "short", length |-> short]

\* a record whose 'full' rendering is too long was degraded to fit
C4_Witness ==
    /\ pc = "rendered"
    /\ _message_length(Lines(fire, "full")) > _SMS_LIMIT
    /\ entry[1].size # "full"
    /\ entry[1].length <= _SMS_LIMIT

\* C19: Messages.fire returns the 'full' rendering when that is within 159
\* units, otherwise the 'medium' rendering when that is within 159 units,
\* otherwise the 'short' rendering whatever its length; it renders again at
\* most twice, and the entry at the chosen level is what a direct call at
\* that level on the original record produces.
C19_StepwiseDegradation ==
    (pc = "rendered") =>
        LET len(size) == _message_length(Lines(fire, size))
            chosen == IF len("full") <= _SMS_LIMIT THEN "full"
                      ELSE IF len("medium") <= _SMS_LIMIT THEN "medium"
                      ELSE "short"
        IN  /\ entry[1] = [size |-> chosen, length |-> len(chosen)]
            /\ entry[1] = Fire(fire, chosen)
            /\ _fire_calls(fire, "full") - 1 <= 2

\* a record of a fractional size whose 'full' rendering is too long came
\* out at 'medium', rendered from the record the first pass had rewritten
C19_Witness ==
    /\ pc = "rendered"
    /\ _message_length(Lines(fire, "full")) > _SMS_LIMIT
    /\ fire.Size % 10 # 0
    /\ entry[1].size = "medium"
    /\ entry[1] = Fire(fire, "medium")
    /\ _fire_calls(fire, "full") = 2

(***************************************************************************)
(* Specification of the fire search: FindFires(coords).nearby(filters)     *)
(* over the configured settings and the perimeter files on disk.           *)
(***************************************************************************)

InitFire ==
    /\ pc = "search"
    /\ settings \in FireSettings
    /\ shapefiles \in { [BC |-> Some(rows), AB |-> ab] :
                          rows \in SeqsUpTo(PerimeterRows, MaxRows),
                          ab \in {None, Some(FileAB)} }
    /\ coords \in { <<50, 0>>, <<50, 5>> }
    /\ user_filters \in UserFilters
    /\ found = None
    /\ BoundariesPresent
    /\ ParseIdle
    /\ FmtIdle
    /\ AvalIdle
    /\ RouterIdle

Nearby ==
    /\ pc = "search"
    /\ found' = Some(nearby(coords, user_filters, shapefiles,
                            provinces_file[1], settings))
    /\ pc' = "searched"
    /\ UNCHANGED <<settings, shapefiles, coords, user_filters, parseVars,
                   fmtVars, boundaryVars, avalVars,
                   routerVars>>

\* the items apply_status_filter is given when Status holds the raw code of
\* the data source (test_fire_filtering.py testapply_status_filter)
RawItems(rows) ==
    [i \in 1..Len(rows) |-> [Fire |-> rows[i].Fire,
                             Status |-> PyStr(rows[i].Status)]]

\* filters.py apply_status_filter applied to items of raw Status
ApplyStatusFilter ==
    /\ pc = "search"
    /\ found' = Some(apply_status_filter(
                         RawItems(shapefiles.BC[1]),
                         final_filters_of(user_filters, settings).status,
                         DataFileOf("BC")[1]))
    /\ pc' = "filtered"
    /\ UNCHANGED <<settings, shapefiles, coords, user_filters, parseVars,
                   fmtVars, boundaryVars, avalVars, routerVars>>

NextFire == Nearby \/ ApplyStatusFilter

SpecFire == InitFire /\ [][NextFire]_vars

\* the level 1-4 of a raw status code under the BC status map, 5 for a code
\* the map does not hold
LevelOf(code) ==
    CASE code = "OUT_CNTRL" -> 1 [] code = "HOLDING" -> 2
      [] code = "UNDR_CNTRL" -> 3 [] code = "OUT" -> 4 [] OTHER -> 5

\* the rows of one file that lie within the search radius and are large
\* enough: what the distance and size filters leave
Eligible(rows, flt, location, st) ==
    { i \in 1..Len(rows) :
        /\ distance(rows[i].geometry, location) * 1000
               <= Min2(flt.distance, st.max_radius * MmPerKm)
        /\ rows[i].Size # None
        /\ rows[i].Size[1] >= 10 * flt.size }

\* C2: in the search pipeline a status filter L keeps exactly the records
\* whose Status level is <= LEVEL(L), and 'all' keeps every record.
C2_StatusFilterKeepsUpToLevel ==
    (pc = "searched" /\ shapefiles.AB = None) =>
        LET flt == final_filters_of(user_filters, settings)
            location == coords_to_point_meters(coords)
            rows == shapefiles.BC[1]
            kept == { i \in Eligible(rows, flt, location, settings) :
                        \/ flt.status = "all"
                        \/ LevelOf(rows[i].Status)
                               <= STATUS_LEVELS[flt.status] }
        IN  { found[1][k].Fire : k \in 1..Len(found[1]) }
                = { rows[i].Fire : i \in kept }

\* the fire codes of a list of records
FiresOf(items) == { items[k].Fire : k \in 1..Len(items) }

\* C11: every record returned by FindFires.nearby has a Distance between 0
\* and the smaller of the requested (or default) distance and max_radius.
C11_DistanceWithinLimit ==
    (pc = "searched") =>
        LET flt == final_filters_of(user_filters, settings)
        IN  \A k \in 1..Len(found[1]) :
                /\ found[1][k].Distance >= 0
                /\ found[1][k].Distance * 1000 <= flt.distance
                /\ found[1][k].Distance * 1000 <= settings.max_radius * MmPerKm

\* a distance larger than max_radius was requested and a record away from
\* the point was returned
C11_Witness ==
    /\ pc = "searched"
    /\ final_filters_of(user_filters, settings).distance
           > settings.max_radius * MmPerKm
    /\ \E k \in 1..Len(found[1]) : found[1][k].Distance > 0

\* the levels from `level` on in the chain active, managed, controlled,
\* out, all
LaterLevels(level) ==
    IF level = "all" THEN {"all"}
    ELSE { StatusNames[j] : j \in { i \in 1..Len(StatusNames) :
               STATUS_LEVELS[StatusNames[i]] >= STATUS_LEVELS[level] } }
         \cup {"all"}

\* C12: every record included under a status filter level is included under
\* every later level of the chain, in the search pipeline and in
\* apply_status_filter over records of raw Status.
C12_StatusMonotone ==
    LET level == final_filters_of(user_filters, settings).status
    IN  /\ (pc = "searched") =>
               \A later \in LaterLevels(level) :
                   FiresOf(found[1]) \subseteq
                       FiresOf(nearby(coords,
                                      [status |-> later] @@ user_filters,
                                      shapefiles, provinces_file[1], settings))
        /\ (pc = "filtered") =>
               \A later \in LaterLevels(level) :
                   FiresOf(found[1]) \subseteq
                       FiresOf(apply_status_filter(
                                   RawItems(shapefiles.BC[1]), later,
                                   DataFileOf("BC")[1]))

\* the filter 'active' kept a record and dropped another
C12_Witness ==
    /\ pc = "filtered"
    /\ final_filters_of(user_filters, settings).status = "active"
    /\ found[1] # <<>>
    /\ Len(found[1]) < Len(shapefiles.BC[1])

\* the distances a message can request, in millimetres
RequestDistances ==
    { k * MmPerKm : k \in 1..6 } \cup { k * MmPerMile : k \in 1..3 }

\* C13: every record returned by FindFires.nearby with a distance is also
\* returned with any larger distance.
C13_DistanceMonotone ==
    (pc = "searched") =>
        \A d2 \in RequestDistances :
            d2 >= final_filters_of(user_filters, settings).distance =>
                FiresOf(found[1]) \subseteq
                    FiresOf(nearby(coords,
                                   [distance |-> d2] @@ user_filters,
                                   shapefiles, provinces_file[1], settings))

\* a search of 1 km returned a record
C13_Witness ==
    /\ pc = "searched"
    /\ final_filters_of(user_filters, settings).distance = MmPerKm
    /\ found[1] # <<>>

(***************************************************************************)
(* Specification of the avalanche dispatcher: for a coordinate and the     *)
(* boundary files on disk, AvalancheReport(coords) selects a provider, and *)
(* a provider is asked its distance_from_region.                           *)
(***************************************************************************)

InitAval ==
    /\ pc = "query"
    /\ settings \in { [BaseSettings EXCEPT !.avalanche = a,
                                           !.avalanche_distance_buffer = b] :
                        a \in ProviderConfigs, b \in {1, 2} }
    /\ subregions_file \in SubregionFiles
    /\ provinces_file \in ProvinceFiles
    /\ coords \in { <<50, lon>> : lon \in 0..MaxLon }
    /\ shapefiles = [BC |-> None, AB |-> None]
    /\ user_filters = <<>>
    /\ found = None
    /\ ParseIdle
    /\ FmtIdle
    /\ AvalIdle
    /\ RouterIdle

SelectProvider ==
    /\ pc = "query"
    /\ provider' = _select_provider(
                       coords, Boundaries(subregions_file, provinces_file),
                       settings)
    /\ pc' = "selected"
    /\ UNCHANGED <<settings, dist, parseVars, fmtVars, fireVars, boundaryVars,
                   routerVars>>

DistanceFromRegion ==
    /\ pc = "query"
    /\ \E key \in AVALANCHE_PROVIDERS :
          dist' = Some([key |-> key,
                        value |-> distance_from_region(
                            key, coords,
                            Boundaries(subregions_file, provinces_file),
                            settings)])
    /\ pc' = "measured"
    /\ UNCHANGED <<settings, provider, parseVars, fmtVars, fireVars,
                   boundaryVars, routerVars>>

NextAval == SelectProvider \/ DistanceFromRegion

SpecAval == InitAval /\ [][NextAval]_vars

\* the registered providers of the configuration, in insertion order
Configured ==
    IF settings.avalanche = None THEN <<>>
    ELSE SelectSeq(settings.avalanche[1],
                   LAMBDA k : k \in AVALANCHE_PROVIDERS)

\* what the i-th configured provider answers for the coordinate
DistanceOf(i) ==
    distance_from_region(Configured[i], coords,
                         Boundaries(subregions_file, provinces_file), settings)

Containing == { i \in 1..Len(Configured) : DistanceOf(i) = None }

WithinBuffer ==
    { i \in 1..Len(Configured) :
        /\ DistanceOf(i) # None
        /\ DistanceOf(i) # PyInf
        /\ DistanceOf(i).fin <= settings.avalanche_distance_buffer * 1000 }

\* C6: _select_provider returns the first provider containing the point;
\* if none contains it, the nearest provider within the buffer, the
\* earliest on a tie; otherwise no provider.
C6_SelectProvider ==
    (pc = "selected") =>
        IF Containing # {}
        THEN /\ provider # None
             /\ \E i \in Containing :
                   /\ provider[1] = Configured[i]
                   /\ \A j \in Containing : i <= j
        ELSE IF WithinBuffer # {}
        THEN /\ provider # None
             /\ \E i \in WithinBuffer :
                   /\ provider[1] = Configured[i]
                   /\ \A j \in WithinBuffer :
                         \/ DistanceOf(i).fin < DistanceOf(j).fin
                         \/ (DistanceOf(i).fin = DistanceOf(j).fin /\ i <= j)
        ELSE provider = None

\* two providers are equally near within the buffer and the earlier one of
\* the configuration was selected
C6_Witness ==
    /\ pc = "selected"
    /\ Containing = {}
    /\ WithinBuffer = {1, 2}
    /\ DistanceOf(1) = DistanceOf(2)
    /\ provider = Some(Configured[1])

\* the polygons a provider measures against: None when its set is not loaded
PolygonsOf(key) ==
    IF key = "CA"
    THEN (IF subregions_file = None THEN None
          ELSE Some({ subregions_file[1][i].geometry :
                        i \in 1..Len(subregions_file[1]) }))
    ELSE IF provinces_file = None THEN None
    ELSE LET qc == { i \in 1..Len(provinces_file[1]) :
                       provinces_file[1][i].code = "QC" }
         IN  IF qc = {} THEN None
             ELSE Some({ provinces_file[1][CHOOSE i \in qc :
                                             \A j \in qc : i <= j].geometry })

\* C7: distance_from_region returns None inside the polygon set, the
\* nearest distance d with 0 <= d <= buffer when the nearest polygon is
\* within the buffer, and +infinity when it is beyond the buffer or the set
\* is not loaded; never a finite value larger than the buffer.
C7_DistanceContract ==
    (pc = "measured") =>
        LET polys == PolygonsOf(dist[1].key)
            x == coords[2] * 1000
            buffer == settings.avalanche_distance_buffer * 1000
            inside == \E g \in polys[1] : g.lo < x /\ x < g.hi
            gap(g) == IF x < g.lo THEN g.lo - x
                      ELSE IF x > g.hi THEN x - g.hi ELSE 0
            within == \E g \in polys[1] : gap(g) <= buffer
            value == dist[1].value
        IN  IF polys = None THEN value = PyInf
            ELSE IF inside THEN value = None
            ELSE IF within
            THEN /\ value # None
                 /\ value # PyInf
                 /\ 0 <= value.fin
                 /\ value.fin <= buffer
                 /\ \E g \in polys[1] : gap(g) = value.fin
                 /\ \A g \in polys[1] : value.fin <= gap(g)
            ELSE value = PyInf

\* a point outside the polygons and within the buffer got a positive distance
C7_Witness ==
    /\ pc = "measured"
    /\ dist[1].value # None
    /\ dist[1].value # PyInf
    /\ dist[1].value.fin > 0

(***************************************************************************)
(* Specification of the router: handle_message answers one message after   *)
(* another over the settings, the boundary and perimeter files, the        *)
(* avalanche API behind the HTTP cache, and the air-quality API.  The      *)
(* positions of handle_message are "recv" (the message is in), "probe"     *)
(* (has_data is to be called), "route" (data_type is decided) and "done".  *)
(* A cache entry expires between two requests.                             *)
(***************************************************************************)

Init ==
    /\ pc = "recv"
    /\ message \in RouterMessages
    /\ parsed = None
    /\ settings \in { [BaseSettings EXCEPT !.include_aqi = b] : b \in BOOLEAN }
    /\ shapefiles \in { [BC |-> Some(rows), AB |-> None] :
                          rows \in { <<>>, RouterFile } }
    /\ subregions_file \in { None, Some(<<SeaToSky>>) }
    /\ provinces_file \in { Some(Provinces), Some(Provinces \o <<Quebec>>) }
    /\ coords = <<0, 0>>
    /\ user_filters = <<>>
    /\ found = None
    /\ FmtIdle
    /\ AvalIdle
    /\ RouterIdle

World == Boundaries(subregions_file, provinces_file)

\* one provider.get_forecast(coords) through the cached session
Fetch(by, key, c, net) ==
    LET got == CachedGet(cache[Url(key, c)], net)
    IN  /\ cache' = [cache EXCEPT ![Url(key, c)] = got.entry]
        /\ fetch' = Append(fetch,
                           [by |-> by, key |-> key, response |-> got.response,
                            network |-> got.network,
                            result |-> provider_get_forecast(
                                key, got.response, c, World, settings)])

\* handle_message up to the choice of the data type (messages.py 186-197)
HandleMessage ==
    /\ pc = "recv"
    /\ parsed' = parse_message(message)
    /\ IF parsed' = None
       THEN /\ reply' = Some(no_gps)
            /\ pc' = "done"
            /\ UNCHANGED data_type
       ELSE /\ data_type' = parsed'[1].data_type
            /\ pc' = IF data_type' = "auto" THEN "probe" ELSE "route"
            /\ UNCHANGED reply
    /\ UNCHANGED <<message, settings, fmtVars, fireVars, boundaryVars,
                   avalVars, cache, probe, fetch, aqi, startup, now, first, conn, transports, loader>>

\* data_type == "auto": AvalancheReport(coords).has_data() decides
\* (messages.py 199-204)
Probe ==
    /\ pc = "probe"
    /\ LET c == parsed[1].coords
           p == _select_provider(c, World, settings)
       IN  IF p = None
           THEN /\ probe' = Some(FALSE)
                /\ UNCHANGED <<cache, fetch>>
           ELSE /\ \E net \in NetworkOutcomes(p[1]) :
                       Fetch("has_data", p[1], c, net)
                /\ probe' = Some(has_data(fetch'[Len(fetch')].result))
    /\ data_type' = IF probe'[1] THEN "avalanche" ELSE "fire"
    /\ pc' = "route"
    /\ UNCHANGED <<settings, parseVars, fmtVars, fireVars, boundaryVars,
                   avalVars, aqi, reply, startup, now, first, conn, transports, loader>>

\* data_type == "avalanche": handle_avalanche_request (messages.py 156-173)
HandleAvalancheRequest ==
    /\ pc = "route"
    /\ data_type = "avalanche"
    /\ LET c == parsed[1].coords
           p == _select_provider(c, World, settings)
       IN  IF AvalancheReport_out_of_range(c, World, settings)
           THEN /\ reply' = Some(outside_of_area_msg)
                /\ UNCHANGED <<cache, fetch>>
           ELSE /\ \E net \in NetworkOutcomes(p[1]) :
                       Fetch("get_forecast", p[1], c, net)
                /\ reply' = Some(AvalancheReport_get_forecast(
                                     p, fetch'[Len(fetch')].result,
                                     parsed[1].avalanche_filters, now,
                                     settings))
    /\ pc' = "done"
    /\ UNCHANGED <<settings, parseVars, fmtVars, fireVars, boundaryVars,
                   avalVars, data_type, probe, aqi, startup, now, first, conn, transports, loader>>

\* data_type == "fire": handle_fire_request (messages.py 121-153)
HandleFireRequest ==
    /\ pc = "route"
    /\ data_type = "fire"
    /\ \E outcome \in AqiOutcomes :
          /\ aqi' = IF settings.include_aqi
                    THEN Some([outcome |-> outcome, result |-> get_aqi(outcome)])
                    ELSE None
          /\ reply' = Some(fire_request(
                               parsed[1].coords, parsed[1].filters,
                               get_aqi(outcome), shapefiles,
                               provinces_file, settings))
    /\ pc' = "done"
    /\ UNCHANGED <<settings, parseVars, fmtVars, fireVars, boundaryVars,
                   avalVars, cache, data_type, probe, fetch,
                   startup, now, first, conn, transports, loader>>

\* the clock readings of the router: midnight and 17:00 of day 0
RouterClock == {0, 17}

\* the transport hands the next message to handle_message, later or at once
NextRequest ==
    /\ pc = "done"
    /\ message' \in RouterMessages
    /\ parsed' = None
    /\ data_type' = "auto"
    /\ probe' = None
    /\ fetch' = <<>>
    /\ aqi' = None
    /\ reply' = None
    /\ pc' = "recv"
    /\ now' \in { t \in RouterClock : t >= now }
    /\ UNCHANGED <<settings, fmtVars, fireVars, boundaryVars, avalVars, cache,
                   startup, first, conn, transports, loader>>

\* cache_timeout seconds after it was stored, a cached response is stale
Expire ==
    /\ pc \in {"recv", "get"}
    /\ \E u \in DOMAIN cache :
          /\ cache[u] # None
          /\ cache[u][1].fresh
          /\ cache' = [cache EXCEPT ![u] = Some([cache[u][1] EXCEPT
                                                    !.fresh = FALSE])]
    /\ UNCHANGED <<pc, settings, parseVars, fmtVars, fireVars, boundaryVars,
                   avalVars, data_type, probe, fetch, aqi, reply,
                   startup, now, first, conn, transports, loader>>

\* the configurations config.yaml can hold
RouterSettings == { [BaseSettings EXCEPT !.include_aqi = b] : b \in BOOLEAN }

\* config.yaml is edited between two requests; get_config() reads the file
\* at every call
EditConfig ==
    /\ pc = "recv"
    /\ settings' \in RouterSettings \ {settings}
    /\ UNCHANGED <<pc, parseVars, fmtVars, fireVars, boundaryVars, avalVars,
                   cache, data_type, probe, fetch, aqi, reply, startup, now, first, conn, transports, loader>>

Next ==
    \/ HandleMessage
    \/ Probe
    \/ HandleAvalancheRequest
    \/ HandleFireRequest
    \/ NextRequest
    \/ Expire
    \/ EditConfig

Spec == Init /\ [][Next]_vars

Answered == pc = "done" /\ reply # None

FireKinds == {"fires", "no_fires", "outside_of_area"}

\* C1: whatever the message and whatever its collaborators do, handle_message
\* returns a non-empty string; it never raises.
C1_RepliesWithText ==
    pc = "done" => /\ reply # None
                   /\ ~reply[1].raised
                   /\ reply[1].length > 0

\* C5: when include_aqi is on and the air-quality request fails, get_aqi
\* returns None and the fire branch still replies, without an AQI line.
C5_FailedAqiIsMissing ==
    (Answered /\ aqi # None /\ aqi[1].outcome # "ok")
        => /\ ~aqi[1].result.raised
           /\ aqi[1].result.value = None
           /\ reply[1].kind \in FireKinds
           /\ reply[1].aqi = None

\* C8: for a message of data type auto, a true has_data() is answered with
\* a formatted forecast, and a false has_data() by the fire branch.
C8_ProbeDecidesReply ==
    (Answered /\ parsed # None /\ parsed[1].data_type = "auto")
        => /\ probe = Some(TRUE) => reply[1].kind = "forecast"
           /\ probe = Some(FALSE) => data_type = "fire"

\* the request of a fetch failed: an exception, a status other than 200,
\* or a body without a report or with a null report id
Failed(f) ==
    \/ f.response.exception
    \/ f.response.status_code # 200
    \/ f.response.body \in {"no_report", "null_id"}

\* C9: when the provider's request fails, provider.get_forecast returns
\* None without raising, has_data() is False, and the avalanche branch
\* replies that no avalanche forecast is available.
C9_FailedFetchIsUnavailable ==
    \A i \in 1..Len(fetch) :
        Failed(fetch[i])
            => /\ ~fetch[i].result.raised
               /\ fetch[i].result.value = None
               /\ fetch[i].by = "has_data" => probe = Some(FALSE)
               /\ (fetch[i].by = "get_forecast" /\ pc = "done")
                      => /\ reply # None
                         /\ ~reply[1].raised
                         /\ reply[1].kind = "avalanche_unavailable"

C9_Witness ==
    /\ Answered
    /\ \E i \in 1..Len(fetch) :
          /\ fetch[i].by = "get_forecast"
          /\ fetch[i].response.exception
    /\ reply[1].kind = "avalanche_unavailable"

\* C10: the no_fires reply states the radius the search used: the smaller of
\* the distance of the request (the default fire_radius when the message
\* gave none) and max_radius.
C10_NoFiresStatesSearchRadius ==
    (Answered /\ ~reply[1].raised /\ reply[1].kind = "no_fires")
        => reply[1].radius * MmPerKm
               = Min2(final_filters_of(parsed[1].filters, settings).distance,
                      settings.max_radius * MmPerKm)

\* C15: every request observes the Settings loaded at startup, whatever
\* happens to the configuration file afterwards: the settings its handlers
\* read are the startup ones, and a fire-branch reply carries an AQI line
\* exactly when include_aqi was set at startup.
C15_SettingsOfStartup ==
    /\ (Answered /\ parsed # None) => settings = startup
    /\ (Answered /\ ~reply[1].raised /\ reply[1].kind \in FireKinds)
           => ((reply[1].aqi # None) <=> startup.include_aqi)

(***************************************************************************)
(* Specification of the HTTP caches: the GETs of the request pipeline, one *)
(* after another.  The avalanche providers GET through their own           *)
(* CachedSession (base.py); get_aqi and the per-fire API of _normalize_row *)
(* GET through requests.get, patched by _install_caches.  `fetch` holds    *)
(* the last GET: the URL, the entry it found, what the network did, and    *)
(* what the caller received.                                               *)
(***************************************************************************)

SessionUrls == { <<"CA", 50, 2>>, <<"QC", 0, 0>> }

\* the air-quality URL of a coordinate and a per-fire API URL
PatchedUrls == { <<"AQI", 50, 2>>, <<"API", 0, 1>> }

\* what requests.get can meet on the network
PatchedOutcomes ==
    { Response(200, "aqi"), Response(200, "hour_missing"),
      Response(500, "error"), RequestException }

InitCache ==
    /\ pc = "get"
    /\ cache = [u \in SessionUrls \cup PatchedUrls |-> None]
    /\ fetch = <<>>
    /\ data_type = "auto"
    /\ probe = None
    /\ aqi = None
    /\ reply = None
    /\ settings = BaseSettings
    /\ startup = settings
    /\ now = 0
    /\ first = None
    /\ conn = NoConn
    /\ transports = NoTransports
    /\ loader = NoLoader
    /\ BoundariesPresent
    /\ ParseIdle
    /\ FmtIdle
    /\ FireIdle
    /\ AvalIdle

\* one GET: what `get` makes of the entry and the network
Get(url, net, got) ==
    /\ cache' = [cache EXCEPT ![url] = got.entry]
    /\ fetch' = << [url |-> url, cached |-> cache[url], net |-> net,
                    response |-> got.response] >>

\* base.py _request: self.session.get(url)
SessionGet ==
    /\ pc = "get"
    /\ \E url \in SessionUrls : \E net \in NetworkOutcomes(url[1]) :
          Get(url, net, CachedGet(cache[url], net))
    /\ UNCHANGED <<pc, settings, parseVars, fmtVars, fireVars, boundaryVars,
                   avalVars, data_type, probe, aqi, reply, startup, now,
                   first, conn, transports, loader>>

\* helpers.py get_aqi and fires.py _normalize_row: requests.get(url)
RequestsGet ==
    /\ pc = "get"
    /\ \E url \in PatchedUrls : \E net \in PatchedOutcomes :
          Get(url, net, InstalledGet(cache[url], net))
    /\ UNCHANGED <<pc, settings, parseVars, fmtVars, fireVars, boundaryVars,
                   avalVars, data_type, probe, aqi, reply, startup, now,
                   first, conn, transports, loader>>

NextCache == SessionGet \/ RequestsGet \/ Expire

SpecCache == InitCache /\ [][NextCache]_vars

\* C14: a GET whose URL has a cached entry past its TTL and whose refresh
\* fails at the network gives the caller the last cached body.
C14_StaleBodyOnFailedRefresh ==
    (pc = "get" /\ fetch # <<>>) =>
        LET g == fetch[1]
        IN  (g.cached # None /\ ~g.cached[1].fresh /\ g.net.exception)
                => /\ ~g.response.exception
                   /\ g.response.status_code = 200
                   /\ g.response.body = g.cached[1].body


(***************************************************************************)
(* Specification of the forecast filter: AvalancheReport._apply_filter     *)
(* picks the dates of a forecast for the filter of the message, at every   *)
(* hour of two days and for several cutoff hours of the provider.          *)
(***************************************************************************)

MaxNow == 47

ForecastKeywords ==
    { [NoKeywords EXCEPT !.avalanche = TRUE],
      [NoKeywords EXCEPT !.avalanche = TRUE, !.current = TRUE],
      [NoKeywords EXCEPT !.avalanche = TRUE, !.today = TRUE],
      [NoKeywords EXCEPT !.avalanche = TRUE, !.tomorrow = TRUE],
      [NoKeywords EXCEPT !.avalanche = TRUE, !.all = TRUE] }

CutoffHours == {0, 12, forecast_cutoff_hour, 23}

InitForecast ==
    /\ pc = "filter"
    /\ message \in { Message(<<>>, Some(<<50, 2>>), <<>>, <<None, None>>, k) :
                        k \in ForecastKeywords }
    /\ parsed = parse_message(message)
    /\ settings \in { [BaseSettings EXCEPT !.forecast_cutoff_hour = h] :
                         h \in CutoffHours }
    /\ FmtIdle
    /\ FireIdle
    /\ BoundariesPresent
    /\ AvalIdle
    /\ cache = [u \in RouterUrls |-> None]
    /\ data_type = "avalanche"
    /\ probe = None
    /\ fetch = <<>>
    /\ aqi = None
    /\ reply = None
    /\ startup = settings
    /\ now \in 0..MaxNow
    /\ first = None
    /\ conn = NoConn
    /\ transports = NoTransports
    /\ loader = NoLoader

\* report.py get_forecast on a forecast the provider returned
ApplyFilter ==
    /\ pc = "filter"
    /\ reply' = Some(AvalancheReport_get_forecast(
                         Some("CA"), Return(Some([region |-> "Sea to Sky"])),
                         parsed[1].avalanche_filters, now, settings))
    /\ pc' = "filtered"
    /\ UNCHANGED <<parseVars, settings, fmtVars, fireVars, boundaryVars,
                   avalVars, cache, data_type, probe, fetch, aqi, startup,
                   now, first, conn, transports, loader>>

NextForecast == ApplyFilter

SpecForecast == InitForecast /\ [][NextForecast]_vars

\* the forecast filter of the request, 'current' when it names none
FilterOfRequest ==
    IF parsed[1].avalanche_filters = <<>> THEN "current"
    ELSE parsed[1].avalanche_filters.forecast

\* C20: with the filter 'current' the one date selected is tomorrow when the
\* local hour is at or past the provider's forecast_cutoff_hour and today
\* when it is below; 'today' selects today and 'tomorrow' selects tomorrow
\* at every hour.
C20_CurrentFollowsCutoff ==
    pc = "filtered" =>
        LET today == now \div 24
            h == now % 24
            shown == reply[1].dates
        IN  /\ ~reply[1].raised
            /\ (FilterOfRequest = "current" /\ h >= settings.forecast_cutoff_hour)
                   => shown = <<today + 1>>
            /\ (FilterOfRequest = "current" /\ h < settings.forecast_cutoff_hour)
                   => shown = <<today>>
            /\ FilterOfRequest = "today" => shown = <<today>>
            /\ FilterOfRequest = "tomorrow" => shown = <<today + 1>>

\* a 'current' request exactly at the default cutoff hour showed tomorrow
C20_Witness ==
    /\ pc = "filtered"
    /\ FilterOfRequest = "current"
    /\ now % 24 = 16
    /\ settings.forecast_cutoff_hour = 16
    /\ reply[1].dates = <<(now \div 24) + 1>>


(***************************************************************************)
(* Specification of the replay: after any number of requests, the state    *)
(* at the arrival of a message is recorded, the message is answered, and   *)
(* handle_message is run a second time on the same message from the        *)
(* recorded HTTP cache, with the same files and settings, at the same or a *)
(* later reading of the clock.                                             *)
(***************************************************************************)

\* the first run starts: what it starts from is recorded
Mark ==
    /\ pc = "recv"
    /\ first = None
    /\ first' = Some([run |-> 1, cache |-> cache, now |-> now,
                      aqi |-> None, reply |-> None])
    /\ UNCHANGED <<pc, settings, parseVars, fmtVars, fireVars, boundaryVars,
                   avalVars, cache, data_type, probe, fetch, aqi, reply,
                   startup, now, conn, transports, loader>>

\* how the air-quality lookup of a run ended, None when there was none
AqiOutcomeOf(lookup) ==
    IF lookup = None THEN None ELSE Some(lookup[1].outcome)

\* the first run has answered: handle_message is called again on the same
\* message, from the recorded cache
Rerun ==
    /\ pc = "done"
    /\ first # None
    /\ first[1].run = 1
    /\ first' = Some([first[1] EXCEPT !.run = 2, !.aqi = AqiOutcomeOf(aqi),
                                      !.reply = reply])
    /\ cache' = first[1].cache
    /\ now' \in { t \in RouterClock : t >= now }
    /\ parsed' = None
    /\ data_type' = "auto"
    /\ probe' = None
    /\ fetch' = <<>>
    /\ aqi' = None
    /\ reply' = None
    /\ pc' = "recv"
    /\ UNCHANGED <<message, settings, fmtVars, fireVars, boundaryVars,
                   avalVars, startup, conn, transports, loader>>

NextReplay ==
    \/ HandleMessage
    \/ Probe
    \/ HandleAvalancheRequest
    \/ HandleFireRequest
    \/ Mark
    \/ Rerun
    \/ (first = None /\ NextRequest)
    \/ (first = None /\ Expire)
    \/ (first = None /\ EditConfig)

SpecReplay == Init /\ [][NextReplay]_vars

\* both runs have answered
Replayed == pc = "done" /\ first # None /\ first[1].run = 2

\* every GET of the second run was answered by a fresh entry of the
\* recorded cache (and so was every GET of the first run)
ServedFromCache ==
    \A i \in DOMAIN fetch :
        LET u == Url(fetch[i].key, parsed[1].coords)
        IN  first[1].cache[u] # None /\ first[1].cache[u][1].fresh

InitIndex ==
    /\ pc = "recv"
    /\ message \in RouterMessages
    /\ parsed = None
    /\ settings \in RouterSettings
    /\ shapefiles = [BC |-> Some(RouterFile), AB |-> None]
    /\ subregions_file \in { None, Some(<<SeaToSky>>) }
    /\ provinces_file \in { None, Some(Provinces \o <<Quebec>>) }
    /\ coords = <<0, 0>>
    /\ user_filters = <<>>
    /\ found = None
    /\ FmtIdle
    /\ AvalIdle
    /\ RouterIdle

SpecIndex == InitIndex /\ [][Next]_vars

\* C18: with a polygon index file missing, every query against it gives the
\* degraded result and nothing is raised: without the subregions file the
\* distance from Avalanche Canada's region is +infinity and that provider
\* is never selected, without the province boundaries the same holds for
\* Avalanche Quebec, and a fire request finds no source and is answered as
\* out of range.
C18_MissingIndexDegrades ==
    (Answered /\ parsed # None) =>
        LET c == parsed[1].coords
            p == _select_provider(c, World, settings)
        IN  /\ subregions_file = None
                   => /\ Canada_distance_from_region(c, World, settings) = PyInf
                      /\ p # Some("CA")
                      /\ \A i \in DOMAIN fetch : fetch[i].key # "CA"
            /\ provinces_file = None
                   => /\ Quebec_distance_from_region(c, World, settings) = PyInf
                      /\ p # Some("QC")
            /\ (provinces_file = None /\ data_type = "fire"
                    /\ (aqi = None \/ aqi[1].outcome = "ok"))
                   => /\ ~reply[1].raised
                      /\ reply[1].kind = "outside_of_area"


(***************************************************************************)
(* Specification of the CLI transport: CLITransport._handle_client serves  *)
(* one request per connection.  Its positions are "accept" (waiting for a  *)
(* connection), the positions of handle_message, "written" (the reply is   *)
(* on the wire), "closed" and "failed" (the coroutine ended in an          *)
(* exception).  The event loop runs a ready coroutine: the handler does    *)
(* not stay for ever at a position where it has a step to take.            *)
(***************************************************************************)

MaxConns == 2

\* what reader.read(4096) returns: the bytes of a message, or bytes that are
\* not UTF-8
CliData == { Some(m) : m \in RouterMessages } \cup { None }

InitCli ==
    /\ pc = "accept"
    /\ ParseIdle
    /\ settings \in RouterSettings
    /\ shapefiles = [BC |-> Some(RouterFile), AB |-> None]
    /\ BoundariesPresent
    /\ coords = <<0, 0>>
    /\ user_filters = <<>>
    /\ found = None
    /\ FmtIdle
    /\ AvalIdle
    /\ RouterIdle

\* an exception leaves _handle_client: nothing more is written; the stream
\* is closed by the event loop (Python 3.12 on) or left open
Unhandled ==
    /\ pc' = "failed"
    /\ conn' \in { [conn EXCEPT !.state = st] : st \in {"open", "closed"} }

\* cli.py 41-43: a connection is accepted, the request is read and decoded
ReadRequest ==
    /\ pc \in {"accept", "closed", "failed"}
    /\ conn.id < MaxConns
    /\ \E data \in CliData :
          IF data = None
          THEN /\ pc' = "failed"
               /\ conn' \in { [id |-> conn.id + 1, state |-> st, out |-> <<>>] :
                                 st \in {"open", "closed"} }
               /\ UNCHANGED message
          ELSE /\ pc' = "recv"
               /\ conn' = [id |-> conn.id + 1, state |-> "read", out |-> <<>>]
               /\ message' = data[1]
    /\ parsed' = None
    /\ data_type' = "auto"
    /\ probe' = None
    /\ fetch' = <<>>
    /\ aqi' = None
    /\ reply' = None
    /\ UNCHANGED <<settings, fmtVars, fireVars, boundaryVars, avalVars, cache,
                   startup, now, first, transports,
                   loader>>

\* cli.py 45-47: handle_message has returned and the response and a newline
\* are written and drained, or it has raised
WriteReply ==
    /\ pc = "done"
    /\ conn.state = "read"
    /\ IF reply[1].raised
       THEN Unhandled
       ELSE /\ pc' = "written"
            /\ conn' = [conn EXCEPT !.out = Append(@, [text |-> reply[1],
                                                       newlines |-> 1])]
    /\ UNCHANGED <<settings, parseVars, fmtVars, fireVars, boundaryVars,
                   avalVars, cache, data_type, probe, fetch, aqi, reply,
                   startup, now, first, transports,
                   loader>>

\* cli.py 49-50: writer.close() and wait_closed()
Close ==
    /\ pc = "written"
    /\ pc' = "closed"
    /\ conn' = [conn EXCEPT !.state = "closed"]
    /\ UNCHANGED <<settings, parseVars, fmtVars, fireVars, boundaryVars,
                   avalVars, cache, data_type, probe, fetch, aqi, reply,
                   startup, now, first, transports,
                   loader>>

NextCli ==
    \/ ReadRequest
    \/ HandleMessage
    \/ Probe
    \/ HandleAvalancheRequest
    \/ HandleFireRequest
    \/ WriteReply
    \/ Close

\* the positions inside handle_message, at each of which it has a step to
\* take
Running == {"recv", "probe", "route"}

\* the handler is scheduled: it does not stay for ever inside
\* handle_message, and a reply that can be written or a stream that can be
\* closed eventually is
SpecCli ==
    /\ InitCli
    /\ [][NextCli]_vars
    /\ \A p \in Running : []<>(pc # p)
    /\ WF_vars(WriteReply)
    /\ WF_vars(Close)

\* C17: every accepted connection from which a request is read eventually
\* has exactly one reply written, ended by a single newline, and is then
\* closed by the server, whatever the outcome of processing the request.
C17_EveryRequestAnswered ==
    \A k \in 1..MaxConns :
        []((conn.id = k /\ conn.state = "read")
             => <>(/\ conn.id = k
                   /\ pc = "closed"
                   /\ conn.state = "closed"
                   /\ Len(conn.out) = 1
                   /\ conn.out[1].newlines = 1))

(***************************************************************************)
(* Specification of a direct call: AvalancheReport.get_forecast is called  *)
(* with a filters dict made by the caller, whose 'forecast' value need not *)
(* be one that parse_message produces.                                     *)
(***************************************************************************)

ForecastFilterValues == {"current", "today", "tomorrow", "all", "weekend", ""}

KnownForecastFilters == {"current", "today", "tomorrow", "all"}

InitFilter ==
    /\ pc = "filter"
    /\ ParseIdle
    /\ user_filters \in { [forecast |-> f] : f \in ForecastFilterValues }
    /\ settings \in { [BaseSettings EXCEPT !.forecast_cutoff_hour = h] :
                         h \in CutoffHours }
    /\ FmtIdle
    /\ shapefiles = [BC |-> None, AB |-> None]
    /\ coords = <<50, 2>>
    /\ found = None
    /\ BoundariesPresent
    /\ AvalIdle
    /\ cache = [u \in RouterUrls |-> None]
    /\ data_type = "avalanche"
    /\ probe = None
    /\ fetch = <<>>
    /\ aqi = None
    /\ reply = None
    /\ startup = settings
    /\ now \in 0..MaxNow
    /\ first = None
    /\ conn = NoConn
    /\ transports = NoTransports
    /\ loader = NoLoader

\* report.py get_forecast(avalanche_filters) on a forecast the provider
\* returned
ApplyCallerFilter ==
    /\ pc = "filter"
    /\ reply' = Some(AvalancheReport_get_forecast(
                         Some("CA"), Return(Some([region |-> "Sea to Sky"])),
                         user_filters, now, settings))
    /\ pc' = "filtered"
    /\ UNCHANGED <<parseVars, settings, fmtVars, fireVars, boundaryVars,
                   avalVars, cache, data_type, probe, fetch, aqi, startup,
                   now, first, conn, transports, loader>>

NextFilter == ApplyCallerFilter

SpecFilter == InitFilter /\ [][NextFilter]_vars

\* C21: a forecast filter value outside {current, today, tomorrow, all}
\* behaves as 'current': at every hour it selects tomorrow when the hour is
\* at or past the cutoff and today otherwise.
C21_UnknownFilterIsCurrent ==
    (pc = "filtered" /\ user_filters.forecast \notin KnownForecastFilters)
        => reply[1].dates =
               IF now % 24 >= settings.forecast_cutoff_hour
               THEN <<(now \div 24) + 1>>
               ELSE <<now \div 24>>

\* C22: in one auto-routed request that ends in the avalanche branch the
\* avalanche API is contacted over the network at most once: the has_data()
\* probe performs the fetch and the get_forecast call of
\* handle_avalanche_request is answered from the HTTP cache.
C22_OneNetworkFetch ==
    (Answered /\ probe = Some(TRUE) /\ data_type = "avalanche") =>
        /\ Cardinality({ i \in DOMAIN fetch : fetch[i].network }) <= 1
        /\ \A i \in DOMAIN fetch :
               fetch[i].by = "get_forecast" => ~fetch[i].network

(***************************************************************************)
(* Specification of the transports: app/__init__.py _run_transports over   *)
(* the CLI and the SignalWire transport.  The listener tasks, the stop()   *)
(* coroutines, the SignalWire worker thread and a CLI request handler are  *)
(* steps the event loop (the operating system, for the thread) interleaves *)
(* in any order.  The positions of _run_transports are "gather" (line 51), *)
(* "stops" (line 54), "cancel" (55-56), "await" (57) and "returned".       *)
(***************************************************************************)

Transports == {"cli", "sw"}

\* the orders settings.transports can list the two in
TransportOrders == { <<"cli", "sw">>, <<"sw", "cli">> }

Finished == {"failed", "returned", "cancelled"}

\* line 49: a task is created for each listen(); none has run yet
InitialTransports(order) ==
    [pc |-> "gather", order |-> order, cause |-> "",
     task |-> [t \in Transports |-> "created"],
     cancel_requested |-> [t \in Transports |-> FALSE],
     awaited |-> [t \in Transports |-> FALSE],
     stop |-> [t \in Transports |-> "none"],
     server |-> "none", handler |-> "none",
     consumer |-> FALSE, future |-> "none", thread |-> "none",
     thread_loop |-> FALSE, asked |-> FALSE]

InitShutdown ==
    /\ pc = "run"
    /\ ParseIdle
    /\ settings = BaseSettings
    /\ FmtIdle
    /\ FireIdle
    /\ BoundariesPresent
    /\ AvalIdle
    /\ cache = [u \in RouterUrls |-> None]
    /\ data_type = "auto"
    /\ probe = None
    /\ fetch = <<>>
    /\ aqi = None
    /\ reply = None
    /\ startup = settings
    /\ now = 0
    /\ first = None
    /\ conn = NoConn
    /\ transports \in { InitialTransports(o) : o \in TransportOrders }
    /\ loader = NoLoader

restOfShutdown ==
    <<pc, parseVars, settings, fmtVars, fireVars, boundaryVars, avalVars,
      cache, data_type, probe, fetch, aqi, reply, startup, now, first, conn,
      loader>>

\* cancelling a listener task: a task that is not finished ends cancelled;
\* the CLI's serve_forever closes its server, the SignalWire listen() takes
\* the future it awaits with it (the thread itself cannot be cancelled)
CancelListeners(tr) ==
    [tr EXCEPT
        !.cancel_requested = [t \in Transports |-> TRUE],
        !.task = [t \in Transports |->
                    IF tr.task[t] \in Finished THEN tr.task[t]
                    ELSE "cancelled"],
        !.server = IF tr.task.cli = "serving" THEN "closed" ELSE tr.server,
        !.future = IF tr.task.sw = "awaiting" /\ tr.future = "pending"
                   THEN "cancelled" ELSE tr.future]

\* cli.py listen: start_server, which may fail (the port is taken), then
\* serve_forever
CliListen ==
    /\ transports.task.cli = "created"
    /\ \/ transports' = [transports EXCEPT !.task.cli = "serving",
                                            !.server = "listening"]
       \/ transports' = [transports EXCEPT !.task.cli = "failed"]
    /\ UNCHANGED restOfShutdown

\* cli.py _handle_client: a connection is being served
CliAccept ==
    /\ transports.server = "listening"
    /\ transports.handler = "none"
    /\ transports' = [transports EXCEPT !.handler = "running"]
    /\ UNCHANGED restOfShutdown

CliHandlerEnds ==
    /\ transports.handler = "running"
    /\ transports' = [transports EXCEPT !.handler = "done"]
    /\ UNCHANGED restOfShutdown

\* signalwire.py listen (65-81): the consumer is built, which may fail, the
\* worker thread is handed to the executor and its future is awaited
SwListen ==
    /\ transports.task.sw = "created"
    /\ \/ transports' = [transports EXCEPT !.task.sw = "awaiting",
                                            !.consumer = TRUE,
                                            !.future = "pending",
                                            !.thread = "pending"]
       \/ transports' = [transports EXCEPT !.task.sw = "failed"]
    /\ UNCHANGED restOfShutdown

\* signalwire.py _run_consumer_in_thread (99-103): the thread runs, makes
\* its loop, publishes it and blocks in consumer.run()
ThreadStart ==
    /\ transports.thread = "pending"
    /\ transports' = [transports EXCEPT !.thread = "running",
                                        !.thread_loop = TRUE]
    /\ UNCHANGED restOfShutdown

\* consumer.run() is over: the thread closes its loop, the future is done
\* and the listen() that awaits it ends with it
ThreadOver(tr, how) ==
    [tr EXCEPT !.thread = "ended",
               !.future = IF tr.future = "pending" THEN how ELSE tr.future,
               !.task.sw = IF tr.task.sw = "awaiting" THEN how
                           ELSE tr.task.sw]

\* signalwire.py 103-107: consumer.run() returns once the consumer was asked
\* to end
ThreadEnd ==
    /\ transports.thread = "running"
    /\ transports.asked
    /\ transports' = ThreadOver(transports, "returned")
    /\ UNCHANGED restOfShutdown

\* consumer.run() raises by itself (the connection is refused or lost)
ConsumerFails ==
    /\ transports.thread = "running"
    /\ transports.pc = "gather"
    /\ transports' = ThreadOver(transports, "failed")
    /\ UNCHANGED restOfShutdown

\* __init__.py 50-53: a listen() task ended with an exception; gather
\* raises, and the finally clause calls stop() on every transport and
\* gathers them
GatherRaises ==
    /\ transports.pc = "gather"
    /\ \E t \in Transports : transports.task[t] = "failed"
    /\ transports' = [transports EXCEPT
                         !.pc = "stops", !.cause = "exception",
                         !.stop = [t \in Transports |-> "scheduled"]]
    /\ UNCHANGED restOfShutdown

\* __init__.py 50-53: the run is cancelled (KeyboardInterrupt); gather
\* cancels the listener tasks and raises when they are over
RunCancelled ==
    /\ transports.pc = "gather"
    /\ transports' = [CancelListeners(transports) EXCEPT
                         !.pc = "stops", !.cause = "cancelled",
                         !.stop = [t \in Transports |-> "scheduled"]]
    /\ UNCHANGED restOfShutdown

\* a gather that awaits the stops one after the other
StopsReady_in_turn(tr) ==
    { t \in Transports :
        \A i, j \in 1..Len(tr.order) :
            (tr.order[j] = t /\ i < j)
                => tr.stop[tr.order[i]] \in {"done", "failed"} }

\* __init__.py 54: asyncio.gather(*(t.stop() for t in transports)) makes a
\* task of every stop(): each runs whatever the others do
StopsReady(tr) == Transports

\* cli.py stop (34-38)
CliStop ==
    /\ transports.stop.cli = "scheduled"
    /\ "cli" \in StopsReady(transports)
    /\ transports' = [transports EXCEPT
                         !.stop.cli = "done",
                         !.server = IF transports.server = "none"
                                    THEN "none" ELSE "closed"]
    /\ UNCHANGED restOfShutdown

\* signalwire.py stop (83-89): the consumer is asked to end when both the
\* consumer and the thread's loop are there; a loop that is closed raises
SwStopAsk ==
    /\ transports.stop.sw = "scheduled"
    /\ "sw" \in StopsReady(transports)
    /\ transports' =
          IF transports.consumer /\ transports.thread_loop
          THEN (IF transports.thread = "ended"
                THEN [transports EXCEPT !.stop.sw = "failed"]
                ELSE [transports EXCEPT !.stop.sw = "wait",
                                         !.asked = TRUE])
          ELSE [transports EXCEPT !.stop.sw = "wait"]
    /\ UNCHANGED restOfShutdown

\* signalwire.py stop (91-93): the future is awaited unless it is done
SwStopWait ==
    /\ transports.stop.sw = "wait"
    /\ transports.future # "pending"
    /\ transports' = [transports EXCEPT !.stop.sw = "done"]
    /\ UNCHANGED restOfShutdown

\* __init__.py 54-56: the stops are over (return_exceptions=True); every
\* listener task is cancelled
CancelTasks ==
    /\ transports.pc = "stops"
    /\ \A t \in Transports : transports.stop[t] \in {"done", "failed"}
    /\ transports' = [CancelListeners(transports) EXCEPT !.pc = "await"]
    /\ UNCHANGED restOfShutdown

\* __init__.py 57: the listener tasks are awaited and _run_transports is
\* over
AwaitTasks ==
    /\ transports.pc = "await"
    /\ transports' = [transports EXCEPT
                         !.pc = "returned",
                         !.awaited = [t \in Transports |-> TRUE]]
    /\ UNCHANGED restOfShutdown

NextShutdown ==
    \/ CliListen
    \/ CliAccept
    \/ CliHandlerEnds
    \/ SwListen
    \/ ThreadStart
    \/ ThreadEnd
    \/ ConsumerFails
    \/ GatherRaises
    \/ RunCancelled
    \/ CliStop
    \/ SwStopAsk
    \/ SwStopWait
    \/ CancelTasks
    \/ AwaitTasks

\* the event loop runs every task that is ready, and the thread the
\* executor was handed runs; whether a listener fails, a client connects or
\* the run is cancelled is up to the environment
SpecShutdown ==
    /\ InitShutdown
    /\ [][NextShutdown]_vars
    /\ WF_vars(CliListen) /\ WF_vars(SwListen) /\ WF_vars(ThreadStart)
    /\ WF_vars(ThreadEnd) /\ WF_vars(CliHandlerEnds)
    /\ WF_vars(GatherRaises) /\ WF_vars(CliStop) /\ WF_vars(SwStopAsk)
    /\ WF_vars(SwStopWait) /\ WF_vars(CancelTasks) /\ WF_vars(AwaitTasks)

\* the finally clause of _run_transports is running
ShuttingDown == transports.pc \in {"stops", "cancel", "await"}

\* C23: on shutdown the listener task is cancelled first, in-flight
\* requests then get a bounded drain window after which their tasks are
\* cancelled, and shutdown always completes, also when a request is still
\* being processed or a transport never finishes on its own.
C23_ShutdownCompletes ==
    /\ [](\A t \in Transports :
              transports.stop[t] # "none" => transports.cancel_requested[t])
    /\ [](transports.pc = "returned" => transports.handler # "running")
    /\ [](ShuttingDown => <>(transports.pc = "returned"))

\* C27: SignalWireTransport.stop(), called at any moment after listen() has
\* started, asks the consumer to end, the consumer thread ends, and stop()
\* returns.
C27_StopEndsConsumer ==
    []((transports.consumer /\ transports.stop.sw = "scheduled")
          => <>(/\ transports.stop.sw = "done"
                /\ transports.thread \in {"none", "ended"}))

\* C29: when a listen() task ended with an exception or the run was
\* cancelled, then before _run_transports returns stop() has been invoked on
\* every transport and every listener task has been cancelled and awaited;
\* and once the stops are gathered every transport's stop() runs, whether
\* or not another transport's stop() fails or never ends.
C29_EveryTransportStopped ==
    /\ [](transports.pc = "returned" =>
            \A t \in Transports :
                /\ transports.stop[t] \in {"done", "failed"}
                /\ transports.cancel_requested[t]
                /\ transports.awaited[t]
                /\ transports.task[t] \in Finished)
    /\ \A t \in Transports :
           [](transports.pc = "stops"
                 => <>(transports.stop[t] \notin {"none", "scheduled"}))

\* the SignalWire stop() waits on a future that will never be done while
\* the CLI transport has been stopped
C29_Witness ==
    /\ transports.pc = "stops"
    /\ transports.order = <<"sw", "cli">>
    /\ transports.stop.sw = "wait"
    /\ transports.future = "pending"
    /\ ~transports.asked
    /\ transports.task.cli = "failed"
    /\ transports.stop.cli = "done"

(***************************************************************************)
(* Reading polygon files.  One process serves requests while the download  *)
(* job (downloads.py, its own process) writes perimeter files.  FindFires  *)
(* is constructed per fire request (messages.py handle_fire_request) and   *)
(* AvalancheReport per avalanche request; the perimeter path of a day is   *)
(* the data file's filename with {DATE} replaced, so the newest path is    *)
(* the one of the latest day written.                                      *)
(***************************************************************************)

\* requests served by the process
MaxRequests == 3

\* fires.py _data_sources: lru_cache on an instance method is keyed by self,
\* and __init__ calls it once on every new instance, so both boundary files
\* are read
FindFires_reads(ld) ==
    [ld EXCEPT !.reads["countries.zip"] = @ + 1,
               !.reads["canada_provinces.zip"] = @ + 1]

\* canada.py _load_subregions, called by AvalancheCanadaProvider.__init__
AvalancheCanadaProvider_reads(ld) ==
    [ld EXCEPT !.reads["canadian_subregions.shp.zip"] = @ + 1]

\* fires.py _load_shapefile: lru_cache keyed by the file path; disk is what
\* the file holds now
_load_shapefile(filepath, ld, disk) ==
    IF ld.held[filepath] # None
    THEN ld
    ELSE [ld EXCEPT !.held[filepath] = disk, !.loads[filepath] = @ + 1]

LoaderFiles == SeqsUpTo(PerimeterRows, 1)

InitLoader ==
    /\ pc = "serve"
    /\ settings \in { [BaseSettings EXCEPT !.fire_status = s] :
                        s \in {"active", "all"} }
    /\ shapefiles \in { [BC |-> Some(rows), AB |-> None] :
                          rows \in LoaderFiles }
    /\ coords \in { <<50, 0>>, <<50, 5>> }
    /\ user_filters = <<>>
    /\ found = None
    /\ BoundariesPresent
    /\ ParseIdle
    /\ FmtIdle
    /\ AvalIdle
    /\ RouterIdle

restOfLoader ==
    <<parseVars, settings, fmtVars, coords, user_filters, boundaryVars,
      avalVars, cache, data_type, probe, fetch, aqi, reply, startup, now,
      first, conn, transports>>

\* FindFires(coords) followed by nearby(filters) in handle_fire_request
LoaderFindFires ==
    /\ pc = "serve"
    /\ loader.requests < MaxRequests
    /\ LET ld == _load_shapefile(loader.day, FindFires_reads(loader),
                                 shapefiles.BC)
       IN  /\ loader' = [ld EXCEPT !.requests = @ + 1]
           /\ found' = Some(nearby(coords, user_filters,
                                   [shapefiles EXCEPT
                                      !.BC = ld.held[loader.day]],
                                   provinces_file[1], settings))
    /\ pc' = "served"
    /\ UNCHANGED <<shapefiles, restOfLoader>>

\* AvalancheReport(coords): _select_provider instantiates every provider
LoaderAvalancheReport ==
    /\ pc = "serve"
    /\ loader.requests < MaxRequests
    /\ loader' = [AvalancheCanadaProvider_reads(loader) EXCEPT !.requests = @ + 1]
    /\ UNCHANGED <<pc, shapefiles, found, restOfLoader>>

\* downloads.py fetch_BC on day d: the day of the newest file or the next
fetch_BC(rows, d) ==
    /\ pc = "serve"
    /\ d \in {loader.day, loader.day + 1}
    /\ d <= MaxDay
    /\ shapefiles' = [shapefiles EXCEPT !.BC = Some(rows)]
    /\ loader' = [loader EXCEPT !.day = d]
    /\ UNCHANGED <<pc, found, restOfLoader>>

LoaderNext ==
    /\ pc = "served"
    /\ pc' = "serve"
    /\ found' = None
    /\ UNCHANGED <<shapefiles, loader, restOfLoader>>

NextLoader ==
    \/ LoaderFindFires
    \/ LoaderAvalancheReport
    \/ \E rows \in LoaderFiles, d \in 0..MaxDay : fetch_BC(rows, d)
    \/ LoaderNext

SpecLoader == InitLoader /\ [][NextLoader]_vars

\* C24: each polygon set (boundary layers, avalanche subregions, a perimeter
\* shapefile held in the bounded cache) is read from disk at most once per
\* process, however many requests and constructions follow its first load
C24_ReadAtMostOnce ==
    /\ \A f \in BoundaryFiles : loader.reads[f] <= 1
    /\ \A d \in 0..MaxDay : loader.loads[d] <= 1

\* C30: a fire search computes its records from what the newest perimeter
\* file contains at the time of the request, also after the download job
\* rewrote the file under the same path since an earlier request loaded it
C30_SearchReflectsDisk ==
    pc = "served" =>
        found = Some(nearby(coords, user_filters, shapefiles,
                            provinces_file[1], settings))

(***************************************************************************)
(* Distance formatting on its own: _format_distance applied to two         *)
(* distances in metres, the second farther than the first.  Values are in  *)
(* tenths of a km; Length is len(str(...)) of the first one.               *)
(***************************************************************************)

MaxMetres == 12000

DistanceGaps == {1, 50, 1000}

InitDistance ==
    /\ pc = "distance"
    /\ fire \in { [Distance |-> m, Farther |-> m + g] :
                    m \in 0..MaxMetres, g \in DistanceGaps }
    /\ entry = None
    /\ settings = BaseSettings
    /\ ParseIdle
    /\ FireIdle
    /\ BoundariesPresent
    /\ AvalIdle
    /\ RouterIdle

FormatDistance ==
    /\ pc = "distance"
    /\ entry' = Some([Distance |-> _format_distance(fire.Distance),
                      Farther |-> _format_distance(fire.Farther),
                      Length |-> DistanceLen(fire.Distance)])
    /\ pc' = "formatted"
    /\ UNCHANGED <<fire, settings, parseVars, fireVars, boundaryVars,
                   avalVars, routerVars>>

NextDistance == FormatDistance

SpecDistance == InitDistance /\ [][NextDistance]_vars

Abs(n) == IF n < 0 THEN -n ELSE n

\* C25: for every non-negative distance in metres, below 10 km the result is
\* the distance rounded to one decimal of a km, from 10 km on it is a whole
\* number of km, a whole result is printed without a trailing '.0', and
\* 10000 m gives 10, 9950 m gives 10, 9940 m gives 9.9, 1000 m gives 1
C25_FormatDistance ==
    pc = "formatted" =>
        LET m == fire.Distance
            t == entry[1].Distance
        IN  /\ m < 10000 => Abs(m - 100 * t) <= 50
            /\ m >= 10000 => t % 10 = 0 /\ Abs(m - 100 * t) <= 500
            /\ t % 10 = 0 => entry[1].Length = Digits(t \div 10)
            /\ t % 10 # 0 => entry[1].Length = Digits(t \div 10) + 2
            /\ m = 10000 => t = 100
            /\ m = 9950 => t = 100
            /\ m = 9940 => t = 99
            /\ m = 1000 => t = 10

C25_Witness ==
    /\ pc = "formatted"
    /\ fire.Distance = 9950
    /\ entry[1].Distance = 100
    /\ entry[1].Length = 2

\* C26 as stated: for m1 < m2 with m1 below 10 km and m2 at or above 10 km
\* the value rendered for m1 is strictly less than the one rendered for m2
C26_StrictAcrossBoundary ==
    (pc = "formatted" /\ fire.Distance < 10000 /\ fire.Farther >= 10000) =>
        entry[1].Distance < entry[1].Farther

\* C26: distance formatting is monotonic in the input metres: for no pair
\* m1 < m2 is the value rendered for m1 greater than the one rendered for
\* m2; across the 10 km boundary the two values can be equal (both 10)
C26_Monotonic ==
    (pc = "formatted" /\ fire.Distance < fire.Farther) =>
        /\ entry[1].Distance <= entry[1].Farther
        /\ (fire.Distance < 10000 /\ fire.Farther >= 10000
            /\ entry[1].Distance = entry[1].Farther)
              => entry[1].Distance = 100

C26_Witness ==
    /\ pc = "formatted"
    /\ fire.Distance = 9950
    /\ fire.Farther = 10000
    /\ entry[1].Distance = 100
    /\ entry[1].Farther = 100

\* C28: the two coverage predicates of a provider agree: out_of_range(coords)
\* is False exactly when distance_from_region(coords) is None or finite, so
\* a provider returned by _select_provider never makes
\* AvalancheReport.out_of_range() true for the same coordinate
C28_CoverageAgrees ==
    LET w == Boundaries(subregions_file, provinces_file)
    IN  /\ pc = "measured" =>
              (~provider_out_of_range(dist[1].key, coords, w, settings)
                  <=> (dist[1].value = None \/ dist[1].value # PyInf))
        /\ (pc = "selected" /\ provider # None) =>
              ~AvalancheReport_out_of_range(coords, w, settings)

====
